---- MODULE Spec2Model ----
(***************************************************************************)
(* Pact escrow (v2 engine, src/src/instructions_v2.rs): one escrow record, *)
(* its custodial lamports, the parties' lamports and the cluster clock.    *)
(* Every instruction handler is one action; a handler that returns Err     *)
(* leaves the record and the balances as they were (the runtime discards   *)
(* the writes of a failed instruction) and only the digest of the call,    *)
(* `last`, records what was attempted and which error came back.           *)
(***************************************************************************)
EXTENDS Integers, Sequences, FiniteSets, TLC

VARIABLES escrow, escrow_lamports, lamports, now, last, paid

vars == <<escrow, escrow_lamports, lamports, now, last, paid>>

\* ------------------------------------------------------------------------
\* Bounds of the model
\* ------------------------------------------------------------------------
\* non-zero addresses 1..NumKeys; address 0 is the all-zero public key
NumKeys == 3
\* Create payload amounts range over 0..MaxAmount
MaxAmount == 2
\* u64 is modelled as a word of WordBits bits (TLC integers are 32-bit)
WordBits == 20
\* the clock starts in 0..MaxStart
MaxStart == 1
\* lamports every address owns before the record is created
InitialLamports == 4
\* Rent::minimum_balance(ESCROW_SIZE) of the cluster, scaled
RentExemptMinimum == 1

\* ------------------------------------------------------------------------
\* Constants of the program
\* ------------------------------------------------------------------------
ESCROW_DISC == "PACTESCR"
ESCROW_SIZE == 195

STATUS_ACTIVE == 0
STATUS_DELIVERED == 1
STATUS_ACCEPTED == 2
STATUS_DISPUTED == 3
STATUS_RELEASED == 4
STATUS_REFUNDED == 5

FLAG_SELLER_DELIVERED == 1
FLAG_BUYER_ACCEPTED == 2
FLAG_BUYER_DISPUTED == 4
FLAG_SELLER_DISPUTED == 8

\* the three-day timeout the tests use
TIMEOUT_3_DAYS == 259200
\* length of the Create payload
CREATE_DATA_LEN == 56

\* ------------------------------------------------------------------------
\* Value domains
\* ------------------------------------------------------------------------
ZERO_KEY == 0
Keys == 0..NumKeys
\* the all-zero key is the system program's address: nobody holds a private
\* key for it, so it never presents signing authority
SigningKeys == 1..NumKeys

U64Mod == 2 ^ WordBits
U64_MAX == U64Mod - 1

Times == (0..MaxStart) \cup ((TIMEOUT_3_DAYS - 1)..(TIMEOUT_3_DAYS + MaxStart))
Timeouts == {0, TIMEOUT_3_DAYS, U64_MAX}
Decisions == {<<>>, <<0>>, <<1>>, <<255>>}

Ok == "Ok"
NotEnoughAccountKeys == "NotEnoughAccountKeys"
MissingRequiredSignature == "MissingRequiredSignature"
InvalidInstructionData == "InvalidInstructionData"
InvalidSeeds == "InvalidSeeds"
InvalidAccountData == "InvalidAccountData"
ArithmeticOverflow == "ArithmeticOverflow"
InsufficientFunds == "InsufficientFunds"
\* a Rust panic (slice index out of range, overflow check) aborts the
\* instruction
Panicked == "Panicked"
\* an error returned by the system program through invoke_signed
CpiError == "CpiError"

\* ------------------------------------------------------------------------
\* Helpers
\* ------------------------------------------------------------------------
\* u8 bit test and bit-or on the flags byte
HasFlag(flags, bit) == (flags \div bit) % 2 = 1

BitOr(flags, bit) == IF HasFlag(flags, bit) THEN flags ELSE flags + bit

\* u64::checked_add: -1 stands for None
checked_add(a, b) == IF a + b > U64_MAX THEN -1 ELSE a + b

\* u64::checked_sub: -1 stands for None
checked_sub(a, b) == IF a < b THEN -1 ELSE a - b

\* find_program_address over ("escrow", buyer, seller, seed): injective in
\* its seeds
derive_escrow(buyer, seller, seed) == <<"escrow", buyer, seller, seed>>

\* the escrow account before Create: no data
NoRecord ==
  [len |-> 0, key |-> <<>>, disc |-> "", buyer |-> ZERO_KEY, seller |-> ZERO_KEY,
   arbitrator |-> ZERO_KEY, mint |-> 0, amount |-> 0, created_at |-> 0,
   timeout_seconds |-> 0, terms_hash |-> 0, status |-> 0, flags |-> 0,
   bump |-> 0]

\* digest of the instruction processed last: the accounts and payload it was
\* given, the status it found, the ProgramResult it returned and the status
\* byte that stood in the account's buffer when it returned
NoCall ==
  [op |-> "none", result |-> Ok, prev_status |-> 0, n |-> 0,
   actor |-> ZERO_KEY, signed |-> FALSE, buyer |-> ZERO_KEY,
   seller |-> ZERO_KEY, data |-> <<>>, written_status |-> 0]

Digest(op, tx, result, e, written) ==
  [op |-> op, result |-> result, prev_status |-> e.status, n |-> tx.n,
   actor |-> tx.actor, signed |-> tx.signed, buyer |-> tx.buyer,
   seller |-> tx.seller, data |-> tx.data, written_status |-> written.status]

IsTerminal(status) == status = STATUS_RELEASED \/ status = STATUS_REFUNDED

\* data[offset..offset + size] is in range (otherwise the slice panics)
read_ok(e, offset, size) == offset + size <= e.len

\* ------------------------------------------------------------------------
\* Instruction inputs.  accounts[0] is `actor` with its is_signer flag; the
\* other account slots are `buyer` and `seller`; `n` is accounts.len().
\* Only accounts[0].is_signer is ever read by a handler.
\* ------------------------------------------------------------------------
OtherKey(k) == IF k >= NumKeys THEN 1 ELSE k + 1

\* keys a caller passes in a slot the handler compares with a stored key:
\* the stored key or a different one
SlotKeys(stored) == {stored, OtherKey(stored)}

Tx(n, actor, signed, buyer, seller, data) ==
  [n |-> n, actor |-> actor, signed |-> signed, buyer |-> buyer,
   seller |-> seller, data |-> data]

\* a call with one account too few reads no account at all; a call whose
\* accounts[0] did not sign reads nothing after the is_signer flag
ShortCalls(need) == {Tx(need - 1, ZERO_KEY, FALSE, ZERO_KEY, ZERO_KEY, <<>>)}

UnsignedCalls(need, e, data) ==
  {Tx(need, k, FALSE, e.buyer, e.seller, data) : k \in Keys}

\* ------------------------------------------------------------------------
\* MarkDelivered::process
\* ------------------------------------------------------------------------
MarkDeliveredCalls(e) ==
  ShortCalls(2) \cup UnsignedCalls(2, e, <<>>) \cup
  {Tx(2, k, TRUE, e.buyer, k, <<>>) : k \in SigningKeys}

\* (mutant) the status check refuses the terminal statuses only
MarkDeliveredResult_FromDisputed(e, tx) ==
  IF tx.n < 2 THEN NotEnoughAccountKeys
  ELSE IF ~tx.signed THEN MissingRequiredSignature
  ELSE IF ~read_ok(e, 0, 8) THEN Panicked
  ELSE IF e.disc # ESCROW_DISC THEN InvalidAccountData
  ELSE IF tx.actor # e.seller THEN InvalidAccountData
  ELSE IF IsTerminal(e.status) THEN InvalidAccountData
  ELSE Ok

\* (mutant) accounts[0] is not compared with the stored seller
MarkDeliveredResult_AnySigner(e, tx) ==
  IF tx.n < 2 THEN NotEnoughAccountKeys
  ELSE IF ~tx.signed THEN MissingRequiredSignature
  ELSE IF ~read_ok(e, 0, 8) THEN Panicked
  ELSE IF e.disc # ESCROW_DISC THEN InvalidAccountData
  ELSE IF e.status # STATUS_ACTIVE THEN InvalidAccountData
  ELSE Ok

MarkDeliveredResult(e, tx) ==
  IF tx.n < 2 THEN NotEnoughAccountKeys
  ELSE IF ~tx.signed THEN MissingRequiredSignature
  ELSE IF ~read_ok(e, 0, 8) THEN Panicked
  ELSE IF e.disc # ESCROW_DISC THEN InvalidAccountData
  ELSE IF tx.actor # e.seller THEN InvalidAccountData
  ELSE IF e.status # STATUS_ACTIVE THEN InvalidAccountData
  ELSE Ok

MarkDeliveredApply(e) ==
  [e EXCEPT !.flags = BitOr(@, FLAG_SELLER_DELIVERED),
            !.status = STATUS_DELIVERED]

\* ------------------------------------------------------------------------
\* The lamport movement shared by the terminal handlers: credit the
\* recipient with checked_add, then debit the escrow account with checked_sub
\* ------------------------------------------------------------------------
TransferResult(amount, recipient_lamports, custody_lamports) ==
  IF checked_add(recipient_lamports, amount) = -1 THEN ArithmeticOverflow
  ELSE IF checked_sub(custody_lamports, amount) = -1 THEN InsufficientFunds
  ELSE Ok

\* ------------------------------------------------------------------------
\* AcceptDelivery::process
\* ------------------------------------------------------------------------
AcceptDeliveryCalls(e) ==
  ShortCalls(3) \cup UnsignedCalls(3, e, <<>>) \cup
  {Tx(3, k, TRUE, k, s, <<>>) : k \in SigningKeys, s \in SlotKeys(e.seller)}

\* (mutant) accounts[0] is not compared with the stored buyer
AcceptDeliveryResult_AnySigner(e, tx, el, lam) ==
  IF tx.n < 3 THEN NotEnoughAccountKeys
  ELSE IF ~tx.signed THEN MissingRequiredSignature
  ELSE IF ~read_ok(e, 0, 8) THEN Panicked
  ELSE IF e.disc # ESCROW_DISC THEN InvalidAccountData
  ELSE IF tx.seller # e.seller THEN InvalidAccountData
  ELSE IF e.status # STATUS_DELIVERED THEN InvalidAccountData
  ELSE TransferResult(e.amount, lam[tx.seller], el)

\* (mutant) the status check only refuses Active and the terminal statuses
AcceptDeliveryResult_FromDisputed(e, tx, el, lam) ==
  IF tx.n < 3 THEN NotEnoughAccountKeys
  ELSE IF ~tx.signed THEN MissingRequiredSignature
  ELSE IF ~read_ok(e, 0, 8) THEN Panicked
  ELSE IF e.disc # ESCROW_DISC THEN InvalidAccountData
  ELSE IF tx.actor # e.buyer \/ tx.seller # e.seller THEN InvalidAccountData
  ELSE IF e.status = STATUS_ACTIVE \/ IsTerminal(e.status)
    THEN InvalidAccountData
  ELSE TransferResult(e.amount, lam[tx.seller], el)

AcceptDeliveryResult(e, tx, el, lam) ==
  IF tx.n < 3 THEN NotEnoughAccountKeys
  ELSE IF ~tx.signed THEN MissingRequiredSignature
  ELSE IF ~read_ok(e, 0, 8) THEN Panicked
  ELSE IF e.disc # ESCROW_DISC THEN InvalidAccountData
  ELSE IF tx.actor # e.buyer \/ tx.seller # e.seller THEN InvalidAccountData
  ELSE IF e.status # STATUS_DELIVERED THEN InvalidAccountData
  ELSE TransferResult(e.amount, lam[tx.seller], el)

\* (mutant) acceptance is recorded in the status, as Accepted
AcceptDeliveryApply_ToAccepted(e) ==
  [e EXCEPT !.flags = BitOr(@, FLAG_BUYER_ACCEPTED),
            !.status = STATUS_ACCEPTED]

\* (mutant) the buyer-accepted flag is not set
AcceptDeliveryApply_NoFlag(e) == [e EXCEPT !.status = STATUS_RELEASED]

AcceptDeliveryApply(e) ==
  [e EXCEPT !.flags = BitOr(@, FLAG_BUYER_ACCEPTED),
            !.status = STATUS_RELEASED]

\* ------------------------------------------------------------------------
\* ReleaseV2::process
\* ------------------------------------------------------------------------
ReleaseV2Calls(e) ==
  ShortCalls(3) \cup UnsignedCalls(3, e, <<>>) \cup
  {Tx(3, k, TRUE, k, s, <<>>) : k \in SigningKeys, s \in SlotKeys(e.seller)}

\* (mutant) a record whose buyer-disputed flag is set is not released
ReleaseV2Result_DisputeFlagGates(e, tx, el, lam) ==
  IF tx.n < 3 THEN NotEnoughAccountKeys
  ELSE IF ~tx.signed THEN MissingRequiredSignature
  ELSE IF ~read_ok(e, 0, 8) THEN Panicked
  ELSE IF e.disc # ESCROW_DISC THEN InvalidAccountData
  ELSE IF tx.actor # e.buyer \/ tx.seller # e.seller THEN InvalidAccountData
  ELSE IF e.status = STATUS_DISPUTED \/ e.status = STATUS_RELEASED
          \/ e.status = STATUS_REFUNDED THEN InvalidAccountData
  ELSE IF HasFlag(e.flags, FLAG_BUYER_DISPUTED) THEN InvalidAccountData
  ELSE TransferResult(e.amount, lam[tx.seller], el)

\* (mutant) the status check lets Disputed through
ReleaseV2Result_FromDisputed(e, tx, el, lam) ==
  IF tx.n < 3 THEN NotEnoughAccountKeys
  ELSE IF ~tx.signed THEN MissingRequiredSignature
  ELSE IF ~read_ok(e, 0, 8) THEN Panicked
  ELSE IF e.disc # ESCROW_DISC THEN InvalidAccountData
  ELSE IF tx.actor # e.buyer \/ tx.seller # e.seller THEN InvalidAccountData
  ELSE IF e.status = STATUS_RELEASED \/ e.status = STATUS_REFUNDED
    THEN InvalidAccountData
  ELSE TransferResult(e.amount, lam[tx.seller], el)

\* (mutant) the status check forgets Refunded
ReleaseV2Result_AfterRefund(e, tx, el, lam) ==
  IF tx.n < 3 THEN NotEnoughAccountKeys
  ELSE IF ~tx.signed THEN MissingRequiredSignature
  ELSE IF ~read_ok(e, 0, 8) THEN Panicked
  ELSE IF e.disc # ESCROW_DISC THEN InvalidAccountData
  ELSE IF tx.actor # e.buyer \/ tx.seller # e.seller THEN InvalidAccountData
  ELSE IF e.status = STATUS_DISPUTED \/ e.status = STATUS_RELEASED
    THEN InvalidAccountData
  ELSE TransferResult(e.amount, lam[tx.seller], el)

ReleaseV2Result(e, tx, el, lam) ==
  IF tx.n < 3 THEN NotEnoughAccountKeys
  ELSE IF ~tx.signed THEN MissingRequiredSignature
  ELSE IF ~read_ok(e, 0, 8) THEN Panicked
  ELSE IF e.disc # ESCROW_DISC THEN InvalidAccountData
  ELSE IF tx.actor # e.buyer \/ tx.seller # e.seller THEN InvalidAccountData
  ELSE IF e.status = STATUS_DISPUTED \/ e.status = STATUS_RELEASED
          \/ e.status = STATUS_REFUNDED THEN InvalidAccountData
  ELSE TransferResult(e.amount, lam[tx.seller], el)

ReleaseV2Apply(e) == [e EXCEPT !.status = STATUS_RELEASED]

\* ------------------------------------------------------------------------
\* RefundV2::process
\* ------------------------------------------------------------------------
\* `created_at + timeout_seconds` is a plain u64 addition: a build with
\* overflow checks panics when it overflows, a build without them wraps
deadline_overflows(e) == e.created_at + e.timeout_seconds > U64_MAX

\* (mutant) the deadline itself does not count as reached
timeout_reached_Strict(e, t) ==
  e.timeout_seconds > 0 /\ t > (e.created_at + e.timeout_seconds) % U64Mod

\* (mutant) a zero timeout is not treated as "no timeout"
timeout_reached_ZeroCounts(e, t) ==
  t >= (e.created_at + e.timeout_seconds) % U64Mod

timeout_reached(e, t) ==
  e.timeout_seconds > 0 /\ t >= (e.created_at + e.timeout_seconds) % U64Mod

can_refund(e, authority, t) ==
  \/ authority = e.seller
  \/ authority = e.buyer /\ (timeout_reached(e, t) \/ e.status = STATUS_ACTIVE)
  \/ authority = e.arbitrator /\ e.status = STATUS_DISPUTED

RefundV2Calls(e) ==
  ShortCalls(4) \cup UnsignedCalls(4, e, <<>>) \cup
  {Tx(4, k, TRUE, b, s, <<>>) :
     k \in SigningKeys, b \in SlotKeys(e.buyer), s \in SlotKeys(e.seller)}

\* (mutant) the authority's signature is not checked
RefundV2Result_NoSignerCheck(e, tx, el, lam, t, overflow_checks) ==
  IF tx.n < 4 THEN NotEnoughAccountKeys
  ELSE IF ~read_ok(e, 0, 8) THEN Panicked
  ELSE IF e.disc # ESCROW_DISC THEN InvalidAccountData
  ELSE IF tx.buyer # e.buyer \/ tx.seller # e.seller THEN InvalidAccountData
  ELSE IF e.status = STATUS_RELEASED \/ e.status = STATUS_REFUNDED
    THEN InvalidAccountData
  ELSE IF overflow_checks /\ e.timeout_seconds > 0 /\ deadline_overflows(e)
    THEN Panicked
  ELSE IF ~can_refund(e, tx.actor, t) THEN InvalidAccountData
  ELSE TransferResult(e.amount, lam[tx.buyer], el)

\* (mutant) the terminal check forgets Refunded
RefundV2Result_RefundTwice(e, tx, el, lam, t, overflow_checks) ==
  IF tx.n < 4 THEN NotEnoughAccountKeys
  ELSE IF ~tx.signed THEN MissingRequiredSignature
  ELSE IF ~read_ok(e, 0, 8) THEN Panicked
  ELSE IF e.disc # ESCROW_DISC THEN InvalidAccountData
  ELSE IF tx.buyer # e.buyer \/ tx.seller # e.seller THEN InvalidAccountData
  ELSE IF e.status = STATUS_RELEASED THEN InvalidAccountData
  ELSE IF overflow_checks /\ e.timeout_seconds > 0 /\ deadline_overflows(e)
    THEN Panicked
  ELSE IF ~can_refund(e, tx.actor, t) THEN InvalidAccountData
  ELSE TransferResult(e.amount, lam[tx.buyer], el)

RefundV2Result(e, tx, el, lam, t, overflow_checks) ==
  IF tx.n < 4 THEN NotEnoughAccountKeys
  ELSE IF ~tx.signed THEN MissingRequiredSignature
  ELSE IF ~read_ok(e, 0, 8) THEN Panicked
  ELSE IF e.disc # ESCROW_DISC THEN InvalidAccountData
  ELSE IF tx.buyer # e.buyer \/ tx.seller # e.seller THEN InvalidAccountData
  ELSE IF e.status = STATUS_RELEASED \/ e.status = STATUS_REFUNDED
    THEN InvalidAccountData
  ELSE IF overflow_checks /\ e.timeout_seconds > 0 /\ deadline_overflows(e)
    THEN Panicked
  ELSE IF ~can_refund(e, tx.actor, t) THEN InvalidAccountData
  ELSE TransferResult(e.amount, lam[tx.buyer], el)

\* (mutant) a refunded record has its amount cleared
RefundV2Apply_ClearsAmount(e) ==
  [e EXCEPT !.status = STATUS_REFUNDED, !.amount = 0]

RefundV2Apply(e) == [e EXCEPT !.status = STATUS_REFUNDED]

\* ------------------------------------------------------------------------
\* Dispute::process
\* ------------------------------------------------------------------------
DisputeCalls(e) ==
  ShortCalls(2) \cup UnsignedCalls(2, e, <<>>) \cup
  {Tx(2, k, TRUE, e.buyer, e.seller, <<>>) : k \in SigningKeys}

\* (mutant) a record that is already Disputed can be disputed again
DisputeResult_Again(e, tx) ==
  IF tx.n < 2 THEN NotEnoughAccountKeys
  ELSE IF ~tx.signed THEN MissingRequiredSignature
  ELSE IF ~read_ok(e, 0, 8) THEN Panicked
  ELSE IF e.disc # ESCROW_DISC THEN InvalidAccountData
  ELSE IF tx.actor # e.buyer /\ tx.actor # e.seller THEN InvalidAccountData
  ELSE IF e.status \notin {STATUS_ACTIVE, STATUS_DELIVERED, STATUS_DISPUTED}
    THEN InvalidAccountData
  ELSE Ok

\* (mutant) a signer that is neither buyer nor seller is reported as a
\* missing signature
DisputeResult_RoleAsMissingSignature(e, tx) ==
  IF tx.n < 2 THEN NotEnoughAccountKeys
  ELSE IF ~tx.signed THEN MissingRequiredSignature
  ELSE IF ~read_ok(e, 0, 8) THEN Panicked
  ELSE IF e.disc # ESCROW_DISC THEN InvalidAccountData
  ELSE IF tx.actor # e.buyer /\ tx.actor # e.seller
    THEN MissingRequiredSignature
  ELSE IF e.status # STATUS_ACTIVE /\ e.status # STATUS_DELIVERED
    THEN InvalidAccountData
  ELSE Ok

DisputeResult(e, tx) ==
  IF tx.n < 2 THEN NotEnoughAccountKeys
  ELSE IF ~tx.signed THEN MissingRequiredSignature
  ELSE IF ~read_ok(e, 0, 8) THEN Panicked
  ELSE IF e.disc # ESCROW_DISC THEN InvalidAccountData
  ELSE IF tx.actor # e.buyer /\ tx.actor # e.seller THEN InvalidAccountData
  ELSE IF e.status # STATUS_ACTIVE /\ e.status # STATUS_DELIVERED
    THEN InvalidAccountData
  ELSE Ok

\* (mutant) the two dispute flags are swapped
DisputeApply_SwappedFlags(e, authority) ==
  [e EXCEPT !.flags = IF authority = e.buyer
                        THEN BitOr(@, FLAG_SELLER_DISPUTED)
                        ELSE BitOr(@, FLAG_BUYER_DISPUTED),
            !.status = STATUS_DISPUTED]

\* (mutant) the flags byte is overwritten with the dispute flag
DisputeApply_ClearsFlags(e, authority) ==
  [e EXCEPT !.flags = IF authority = e.buyer THEN FLAG_BUYER_DISPUTED
                                               ELSE FLAG_SELLER_DISPUTED,
            !.status = STATUS_DISPUTED]

DisputeApply(e, authority) ==
  [e EXCEPT !.flags = IF authority = e.buyer
                        THEN BitOr(@, FLAG_BUYER_DISPUTED)
                        ELSE BitOr(@, FLAG_SELLER_DISPUTED),
            !.status = STATUS_DISPUTED]

\* ------------------------------------------------------------------------
\* Arbitrate::process
\* ------------------------------------------------------------------------
ArbitrateCalls(e) ==
  ShortCalls(4) \cup UnsignedCalls(4, e, <<1>>) \cup
  {Tx(4, k, TRUE, e.buyer, e.seller, <<>>) : k \in SigningKeys} \cup
  {Tx(4, k, TRUE, b, s, d) :
     k \in SigningKeys, b \in SlotKeys(e.buyer), s \in SlotKeys(e.seller),
     d \in Decisions \ {<<>>}}

\* (mutant) the decision byte does not select the recipient
ArbitrateRecipient_AlwaysSeller(tx) == tx.seller

\* the account credited by a successful Arbitrate
ArbitrateRecipient(tx) == IF tx.data[1] = 0 THEN tx.buyer ELSE tx.seller

\* (mutant) the status check lets Delivered through as well
ArbitrateResult_FromDelivered(e, tx, el, lam) ==
  IF tx.n < 4 THEN NotEnoughAccountKeys
  ELSE IF ~tx.signed THEN MissingRequiredSignature
  ELSE IF tx.data = <<>> THEN InvalidInstructionData
  ELSE IF ~read_ok(e, 0, 8) THEN Panicked
  ELSE IF e.disc # ESCROW_DISC THEN InvalidAccountData
  ELSE IF tx.actor # e.arbitrator THEN InvalidAccountData
  ELSE IF tx.buyer # e.buyer \/ tx.seller # e.seller THEN InvalidAccountData
  ELSE IF e.arbitrator = ZERO_KEY THEN InvalidAccountData
  ELSE IF e.status # STATUS_DISPUTED /\ e.status # STATUS_DELIVERED
    THEN InvalidAccountData
  ELSE TransferResult(e.amount, lam[ArbitrateRecipient(tx)], el)

\* (mutant) the status check refuses Active and Delivered only
ArbitrateResult_AfterTerminal(e, tx, el, lam) ==
  IF tx.n < 4 THEN NotEnoughAccountKeys
  ELSE IF ~tx.signed THEN MissingRequiredSignature
  ELSE IF tx.data = <<>> THEN InvalidInstructionData
  ELSE IF ~read_ok(e, 0, 8) THEN Panicked
  ELSE IF e.disc # ESCROW_DISC THEN InvalidAccountData
  ELSE IF tx.actor # e.arbitrator THEN InvalidAccountData
  ELSE IF tx.buyer # e.buyer \/ tx.seller # e.seller THEN InvalidAccountData
  ELSE IF e.arbitrator = ZERO_KEY THEN InvalidAccountData
  ELSE IF e.status = STATUS_ACTIVE \/ e.status = STATUS_DELIVERED
    THEN InvalidAccountData
  ELSE TransferResult(e.amount, lam[ArbitrateRecipient(tx)], el)

\* (mutant) accounts[0] is not compared with the stored arbitrator
ArbitrateResult_AnySigner(e, tx, el, lam) ==
  IF tx.n < 4 THEN NotEnoughAccountKeys
  ELSE IF ~tx.signed THEN MissingRequiredSignature
  ELSE IF tx.data = <<>> THEN InvalidInstructionData
  ELSE IF ~read_ok(e, 0, 8) THEN Panicked
  ELSE IF e.disc # ESCROW_DISC THEN InvalidAccountData
  ELSE IF tx.buyer # e.buyer \/ tx.seller # e.seller THEN InvalidAccountData
  ELSE IF e.status # STATUS_DISPUTED THEN InvalidAccountData
  ELSE TransferResult(e.amount, lam[ArbitrateRecipient(tx)], el)

ArbitrateResult(e, tx, el, lam) ==
  IF tx.n < 4 THEN NotEnoughAccountKeys
  ELSE IF ~tx.signed THEN MissingRequiredSignature
  ELSE IF tx.data = <<>> THEN InvalidInstructionData
  ELSE IF ~read_ok(e, 0, 8) THEN Panicked
  ELSE IF e.disc # ESCROW_DISC THEN InvalidAccountData
  ELSE IF tx.actor # e.arbitrator THEN InvalidAccountData
  ELSE IF tx.buyer # e.buyer \/ tx.seller # e.seller THEN InvalidAccountData
  ELSE IF e.arbitrator = ZERO_KEY THEN InvalidAccountData
  ELSE IF e.status # STATUS_DISPUTED THEN InvalidAccountData
  ELSE TransferResult(e.amount, lam[ArbitrateRecipient(tx)], el)

\* (mutant) only decision byte 1 releases
ArbitrateApply_OnlyOneReleases(e, decision) ==
  [e EXCEPT !.status = IF decision = 1 THEN STATUS_RELEASED
                                          ELSE STATUS_REFUNDED]

ArbitrateApply(e, decision) ==
  [e EXCEPT !.status = IF decision = 0 THEN STATUS_REFUNDED
                                          ELSE STATUS_RELEASED]

\* ------------------------------------------------------------------------
\* CreateEscrowV2::process
\* ------------------------------------------------------------------------
\* keys are interchangeable, so the record's creator is the first key and
\* its seller is the creator itself or the second key
Creators == {1}
Sellers == {1, 2}
Seeds == {1}
TermsHashes == {171}

Payload(len, amount, seed, timeout_seconds, terms_hash) ==
  [len |-> len, amount |-> amount, seed |-> seed,
   timeout_seconds |-> timeout_seconds, terms_hash |-> terms_hash]

CreateTx(n, actor, signed, seller, arbitrator, escrow_key, data) ==
  [n |-> n, actor |-> actor, signed |-> signed, buyer |-> actor,
   seller |-> seller, arbitrator |-> arbitrator, escrow_key |-> escrow_key,
   data |-> data]

\* well-formed Create calls, and each of them with one thing wrong: an
\* account missing, a payload one byte short, no signature, a zero amount,
\* an escrow address derived from another seed
GoodCreateCalls ==
  {CreateTx(5, b, TRUE, s, a, derive_escrow(b, s, sd),
            Payload(CREATE_DATA_LEN, amt, sd, to, th)) :
     b \in Creators, s \in Sellers, a \in Keys, sd \in Seeds,
     amt \in 1..MaxAmount, to \in Timeouts, th \in TermsHashes}

FaultyCreateCalls ==
  UNION {{[g EXCEPT !.n = 4],
          [g EXCEPT !.data.len = CREATE_DATA_LEN - 1],
          [g EXCEPT !.signed = FALSE],
          [g EXCEPT !.data.amount = 0],
          [g EXCEPT !.escrow_key = derive_escrow(g.actor, g.seller, g.data.seed + 1)]}
         : g \in GoodCreateCalls}

\* once the record exists, the only Create that addresses it repeats its
\* buyer, seller and seed
CreateEscrowV2Calls(e) ==
  IF e.len = 0 THEN GoodCreateCalls \cup FaultyCreateCalls
  ELSE {CreateTx(5, e.buyer, TRUE, e.seller, e.arbitrator, e.key,
                 Payload(CREATE_DATA_LEN, e.amount, e.key[4],
                         e.timeout_seconds, e.terms_hash))}

\* Rent::minimum_balance
minimum_balance(size) == RentExemptMinimum

\* (mutant) a zero amount is not refused
CreateEscrowV2Result_ZeroAmount(e, tx, lam) ==
  IF tx.n < 5 THEN NotEnoughAccountKeys
  ELSE IF tx.data.len < CREATE_DATA_LEN THEN InvalidInstructionData
  ELSE IF ~tx.signed THEN MissingRequiredSignature
  ELSE IF tx.escrow_key # derive_escrow(tx.actor, tx.seller, tx.data.seed)
    THEN InvalidSeeds
  ELSE IF e.len # 0 \/ lam[tx.actor] < minimum_balance(ESCROW_SIZE)
    THEN CpiError
  ELSE IF lam[tx.actor] - minimum_balance(ESCROW_SIZE) < tx.data.amount
    THEN CpiError
  ELSE Ok

\* the system program refuses to create an account that already exists and
\* to move lamports the payer does not have
CreateEscrowV2Result(e, tx, lam) ==
  IF tx.n < 5 THEN NotEnoughAccountKeys
  ELSE IF tx.data.len < CREATE_DATA_LEN THEN InvalidInstructionData
  ELSE IF ~tx.signed THEN MissingRequiredSignature
  ELSE IF tx.data.amount = 0 THEN InvalidInstructionData
  ELSE IF tx.escrow_key # derive_escrow(tx.actor, tx.seller, tx.data.seed)
    THEN InvalidSeeds
  ELSE IF e.len # 0 \/ lam[tx.actor] < minimum_balance(ESCROW_SIZE)
    THEN CpiError
  ELSE IF lam[tx.actor] - minimum_balance(ESCROW_SIZE) < tx.data.amount
    THEN CpiError
  ELSE Ok

\* (mutant) the record stores one lamport less than is deposited
CreateEscrowV2Apply_WrongAmount(tx, t) ==
  [len |-> ESCROW_SIZE, key |-> tx.escrow_key, disc |-> ESCROW_DISC,
   buyer |-> tx.actor, seller |-> tx.seller, arbitrator |-> tx.arbitrator,
   mint |-> 0, amount |-> tx.data.amount - 1, created_at |-> t,
   timeout_seconds |-> tx.data.timeout_seconds,
   terms_hash |-> tx.data.terms_hash, status |-> STATUS_ACTIVE, flags |-> 0,
   bump |-> 255]

CreateEscrowV2Apply(tx, t) ==
  [len |-> ESCROW_SIZE, key |-> tx.escrow_key, disc |-> ESCROW_DISC,
   buyer |-> tx.actor, seller |-> tx.seller, arbitrator |-> tx.arbitrator,
   mint |-> 0, amount |-> tx.data.amount, created_at |-> t,
   timeout_seconds |-> tx.data.timeout_seconds,
   terms_hash |-> tx.data.terms_hash, status |-> STATUS_ACTIVE, flags |-> 0,
   bump |-> 255]

\* ------------------------------------------------------------------------
\* The state machine
\* ------------------------------------------------------------------------
Idle == last.op = "none"

\* (mutant) the recipient is credited and custody is not debited
PayOut_NoDebit(to, amount) ==
  /\ lamports' = [lamports EXCEPT ![to] = @ + amount]
  /\ escrow_lamports' = escrow_lamports
  /\ paid' = [paid EXCEPT ![to] = @ + amount]

\* credit `to` with the record's amount out of the custodial lamports
PayOut(to, amount) ==
  /\ lamports' = [lamports EXCEPT ![to] = @ + amount]
  /\ escrow_lamports' = escrow_lamports - amount
  /\ paid' = [paid EXCEPT ![to] = @ + amount]

\* (mutant) the lamports move first and the record is written after them
AtReturn_TransferFirst(r, e, applied, to, amount) ==
  [escrow |-> IF r = Ok THEN applied ELSE e,
   to |-> to,
   credit |-> IF r \in {Ok, InsufficientFunds} THEN amount ELSE 0,
   debit |-> IF r = Ok THEN amount ELSE 0]

\* the account buffers as a handler leaves them when it returns `r`: the
\* record is written before the lamports move, the recipient is credited
\* before the escrow account is debited, and `?` returns at the first leg
\* that fails
AtReturn(r, e, applied, to, amount) ==
  [escrow |-> IF r \in {Ok, ArithmeticOverflow, InsufficientFunds}
                THEN applied ELSE e,
   to |-> to,
   credit |-> IF r \in {Ok, InsufficientFunds} THEN amount ELSE 0,
   debit |-> IF r = Ok THEN amount ELSE 0]

\* (mutant) what a failed instruction wrote is kept
Commit_KeepOnError(r, d) ==
  /\ escrow' = d.escrow
  /\ lamports' = [lamports EXCEPT ![d.to] = @ + d.credit]
  /\ escrow_lamports' = escrow_lamports - d.debit
  /\ paid' = [paid EXCEPT ![d.to] = @ + d.credit]

\* the runtime keeps what an instruction wrote to its accounts when the
\* entrypoint returns Ok and discards it otherwise
Commit(r, d) ==
  IF r = Ok
    THEN /\ escrow' = d.escrow
         /\ PayOut(d.to, d.credit)
    ELSE UNCHANGED <<escrow, escrow_lamports, lamports, paid>>

Init ==
  /\ escrow = NoRecord
  /\ escrow_lamports = 0
  /\ lamports = [k \in Keys |-> InitialLamports]
  /\ now \in 0..MaxStart
  /\ last = NoCall
  /\ paid = [k \in Keys |-> 0]

CreateEscrowV2 ==
  /\ Idle
  /\ \E tx \in CreateEscrowV2Calls(escrow) :
       LET r == CreateEscrowV2Result(escrow, tx, lamports) IN
       /\ last' = Digest("Create", tx, r, escrow,
                         IF r = Ok THEN CreateEscrowV2Apply(tx, now) ELSE escrow)
       /\ IF r = Ok
            THEN /\ escrow' = CreateEscrowV2Apply(tx, now)
                 /\ lamports' = [lamports EXCEPT ![tx.actor] =
                        @ - minimum_balance(ESCROW_SIZE) - tx.data.amount]
                 /\ escrow_lamports' = escrow_lamports
                        + minimum_balance(ESCROW_SIZE) + tx.data.amount
            ELSE UNCHANGED <<escrow, lamports, escrow_lamports>>
       /\ UNCHANGED <<now, paid>>

MarkDelivered ==
  /\ Idle
  /\ \E tx \in MarkDeliveredCalls(escrow) :
       LET r == MarkDeliveredResult(escrow, tx)
           d == AtReturn(r, escrow, MarkDeliveredApply(escrow), tx.actor, 0)
       IN
       /\ last' = Digest("MarkDelivered", tx, r, escrow, d.escrow)
       /\ Commit(r, d)
       /\ UNCHANGED now

AcceptDelivery ==
  /\ Idle
  /\ \E tx \in AcceptDeliveryCalls(escrow) :
       LET r == AcceptDeliveryResult(escrow, tx, escrow_lamports, lamports)
           d == AtReturn(r, escrow, AcceptDeliveryApply(escrow), tx.seller,
                         escrow.amount)
       IN
       /\ last' = Digest("AcceptDelivery", tx, r, escrow, d.escrow)
       /\ Commit(r, d)
       /\ UNCHANGED now

ReleaseV2 ==
  /\ Idle
  /\ \E tx \in ReleaseV2Calls(escrow) :
       LET r == ReleaseV2Result(escrow, tx, escrow_lamports, lamports)
           d == AtReturn(r, escrow, ReleaseV2Apply(escrow), tx.seller,
                         escrow.amount)
       IN
       /\ last' = Digest("Release", tx, r, escrow, d.escrow)
       /\ Commit(r, d)
       /\ UNCHANGED now

RefundV2 ==
  /\ Idle
  /\ \E tx \in RefundV2Calls(escrow), overflow_checks \in BOOLEAN :
       LET r == RefundV2Result(escrow, tx, escrow_lamports, lamports, now,
                               overflow_checks)
           d == AtReturn(r, escrow, RefundV2Apply(escrow), tx.buyer,
                         escrow.amount)
       IN
       /\ last' = Digest("Refund", tx, r, escrow, d.escrow)
       /\ Commit(r, d)
       /\ UNCHANGED now

Dispute ==
  /\ Idle
  /\ \E tx \in DisputeCalls(escrow) :
       LET r == DisputeResult(escrow, tx)
           d == AtReturn(r, escrow, DisputeApply(escrow, tx.actor), tx.actor, 0)
       IN
       /\ last' = Digest("Dispute", tx, r, escrow, d.escrow)
       /\ Commit(r, d)
       /\ UNCHANGED now

Arbitrate ==
  /\ Idle
  /\ \E tx \in ArbitrateCalls(escrow) :
       LET r == ArbitrateResult(escrow, tx, escrow_lamports, lamports)
           d == IF tx.data = <<>>
                  THEN AtReturn(r, escrow, escrow, tx.actor, 0)
                  ELSE AtReturn(r, escrow, ArbitrateApply(escrow, tx.data[1]),
                                ArbitrateRecipient(tx), escrow.amount)
       IN
       /\ last' = Digest("Arbitrate", tx, r, escrow, d.escrow)
       /\ Commit(r, d)
       /\ UNCHANGED now

\* the ProgramResult goes back to the caller; the runtime processes the
\* instructions that address one record one after the other
Return ==
  /\ ~Idle
  /\ last' = NoCall
  /\ UNCHANGED <<escrow, escrow_lamports, lamports, now, paid>>

\* the cluster clock advances (the time that passes before the record is
\* created is the choice of `now` in Init)
Tick ==
  /\ Idle
  /\ escrow.len # 0
  /\ \E t \in Times : t > now /\ now' = t
  /\ UNCHANGED <<escrow, escrow_lamports, lamports, last, paid>>

Next ==
  \/ CreateEscrowV2
  \/ MarkDelivered
  \/ AcceptDelivery
  \/ ReleaseV2
  \/ RefundV2
  \/ Dispute
  \/ Arbitrate
  \/ Return
  \/ Tick

Spec == Init /\ [][Next]_vars

\* ------------------------------------------------------------------------
\* Vocabulary of the properties
\* ------------------------------------------------------------------------
\* A ledger on which the second key, the seller of the records it does not
\* create, already holds so many lamports that a credit of MaxAmount
\* overflows u64 (the lamports of an account are any u64; a program test
\* sets them freely)
InitRichSeller ==
  /\ escrow = NoRecord
  /\ escrow_lamports = 0
  /\ lamports = [k \in Keys |-> IF k = 2 THEN U64_MAX - MaxAmount + 1
                                         ELSE InitialLamports]
  /\ now \in 0..MaxStart
  /\ last = NoCall
  /\ paid = [k \in Keys |-> 0]

SpecRichSeller == InitRichSeller /\ [][Next]_vars

\* the specification's error names, as the ProgramError values the handlers
\* return for them
InvalidState == InvalidAccountData
MalformedInput == InvalidInstructionData

Created == escrow.len # 0

RECURSIVE SumOver(_, _)
SumOver(f, S) ==
  IF S = {} THEN 0
  ELSE LET k == CHOOSE x \in S : TRUE IN f[k] + SumOver(f, S \ {k})

\* lamports paid out of custody so far, to anybody
TotalPaid == SumOver(paid, Keys)

OnlyPaid(k, amount) == paid = [x \in Keys |-> IF x = k THEN amount ELSE 0]

RecordOps ==
  {"MarkDelivered", "AcceptDelivery", "Release", "Refund", "Dispute",
   "Arbitrate"}

TerminalOps == {"AcceptDelivery", "Release", "Refund", "Arbitrate"}

\* ------------------------------------------------------------------------
\* C1
\* ------------------------------------------------------------------------
\* C1 as stated: nothing is paid out of custody while the status is Active,
\* Delivered or Disputed, exactly `amount` is paid out once the status is
\* terminal, and the whole amount went to the stored seller iff the status
\* is Released and to the stored buyer iff the status is Refunded.
C1_AsStated ==
  Created =>
    /\ ~IsTerminal(escrow.status) => TotalPaid = 0
    /\ IsTerminal(escrow.status) => TotalPaid = escrow.amount
    /\ paid[escrow.seller] = escrow.amount <=> escrow.status = STATUS_RELEASED
    /\ paid[escrow.buyer] = escrow.amount <=> escrow.status = STATUS_REFUNDED

\* C1 (amended): custody loses exactly what is paid out; nothing is paid out
\* while the status is Active, Delivered or Disputed; once the status is
\* Released the stored seller, and nobody else, has been paid exactly
\* `amount`, once it is Refunded the stored buyer, and nobody else, has; and
\* when the stored buyer and seller are different addresses the seller has
\* the amount iff the status is Released and the buyer iff it is Refunded.
C1_Payout ==
  Created =>
    /\ escrow_lamports + TotalPaid =
         minimum_balance(ESCROW_SIZE) + escrow.amount
    /\ ~IsTerminal(escrow.status) => TotalPaid = 0
    /\ escrow.status = STATUS_RELEASED => OnlyPaid(escrow.seller, escrow.amount)
    /\ escrow.status = STATUS_REFUNDED => OnlyPaid(escrow.buyer, escrow.amount)
    /\ escrow.buyer # escrow.seller =>
         /\ paid[escrow.seller] = escrow.amount
              <=> escrow.status = STATUS_RELEASED
         /\ paid[escrow.buyer] = escrow.amount
              <=> escrow.status = STATUS_REFUNDED

\* an arbitrator's refund decision has paid the buyer of a record whose
\* seller is somebody else
C1_Witness ==
  /\ Created
  /\ escrow.buyer # escrow.seller
  /\ escrow.status = STATUS_REFUNDED
  /\ last.op = "Arbitrate"
  /\ last.result = Ok
  /\ paid[escrow.buyer] = escrow.amount
  /\ escrow.amount = MaxAmount

\* ------------------------------------------------------------------------
\* C2
\* ------------------------------------------------------------------------
\* an instruction that addresses the record (every account given), signed by
\* its accounts[0], is processed in this step
SignedCall(d) == d.op \in RecordOps /\ d.signed

\* C2 as stated: once the status is Released or Refunded, every invocation
\* of MarkDelivered, AcceptDelivery, Release, Refund, Dispute or Arbitrate,
\* by any signer and with any payload, fails with InvalidState and leaves
\* the record and all balances unchanged.
C2_AsStated ==
  [][(Created /\ IsTerminal(escrow.status) /\ SignedCall(last'))
       => /\ last'.result = InvalidState
          /\ UNCHANGED <<escrow, escrow_lamports, lamports>>]_vars

\* C2 (amended): once the status is Released or Refunded, every such
\* invocation fails and leaves the record and all balances unchanged; it
\* fails with InvalidState, except that Arbitrate with an empty payload
\* fails with MalformedInput.
C2_TerminalIsFinal ==
  [][(Created /\ IsTerminal(escrow.status) /\ SignedCall(last'))
       => /\ IF last'.op = "Arbitrate" /\ last'.data = <<>>
               THEN last'.result = MalformedInput
               ELSE last'.result = InvalidState
          /\ UNCHANGED <<escrow, escrow_lamports, lamports>>]_vars

\* the stored seller, who may refund from every other status, was refused on
\* a Released record
C2_Witness ==
  /\ Created
  /\ escrow.status = STATUS_RELEASED
  /\ last.op = "Refund"
  /\ last.signed
  /\ last.actor = escrow.seller
  /\ last.buyer = escrow.buyer
  /\ last.seller = escrow.seller
  /\ last.prev_status = STATUS_RELEASED
  /\ last.result = InvalidState

\* ------------------------------------------------------------------------
\* C3
\* ------------------------------------------------------------------------
\* C3 as stated: custodial + buyer + seller balance is the same before and
\* after every AcceptDelivery, Release, Refund and Arbitrate, successful or
\* failed.
C3_AsStated ==
  [][(Created /\ last'.op \in TerminalOps)
       => escrow_lamports' + lamports'[escrow.buyer] + lamports'[escrow.seller]
            = escrow_lamports + lamports[escrow.buyer] + lamports[escrow.seller]]_vars

\* C3 (amended): the sum of the custodial balance and the balances of the
\* stored buyer and seller, each distinct address counted once, is the same
\* before and after every AcceptDelivery, Release, Refund and Arbitrate,
\* successful or failed; when buyer and seller are different addresses this
\* is the three-term sum of the claim.
C3_Conservation ==
  [][(Created /\ last'.op \in TerminalOps)
       => /\ escrow_lamports' + SumOver(lamports', {escrow.buyer, escrow.seller})
               = escrow_lamports + SumOver(lamports, {escrow.buyer, escrow.seller})
          /\ escrow.buyer # escrow.seller =>
               escrow_lamports' + lamports'[escrow.buyer] + lamports'[escrow.seller]
                 = escrow_lamports + lamports[escrow.buyer] + lamports[escrow.seller]]_vars

\* a Release has moved the amount from custody to a seller who is not the
\* buyer
C3_Witness ==
  /\ Created
  /\ escrow.buyer # escrow.seller
  /\ last.op = "Release"
  /\ last.result = Ok
  /\ escrow.status = STATUS_RELEASED
  /\ escrow_lamports = minimum_balance(ESCROW_SIZE)
  /\ lamports[escrow.seller] = InitialLamports + escrow.amount

\* ------------------------------------------------------------------------
\* C4
\* ------------------------------------------------------------------------
\* the transition table: <<status before, operation, status after>>
TransitionTable ==
  {<<STATUS_ACTIVE, "MarkDelivered", STATUS_DELIVERED>>,
   <<STATUS_DELIVERED, "AcceptDelivery", STATUS_RELEASED>>,
   <<STATUS_ACTIVE, "Release", STATUS_RELEASED>>,
   <<STATUS_DELIVERED, "Release", STATUS_RELEASED>>,
   <<STATUS_ACTIVE, "Dispute", STATUS_DISPUTED>>,
   <<STATUS_DELIVERED, "Dispute", STATUS_DISPUTED>>,
   <<STATUS_ACTIVE, "Refund", STATUS_REFUNDED>>,
   <<STATUS_DELIVERED, "Refund", STATUS_REFUNDED>>,
   <<STATUS_DISPUTED, "Refund", STATUS_REFUNDED>>,
   <<STATUS_DISPUTED, "Arbitrate", STATUS_RELEASED>>,
   <<STATUS_DISPUTED, "Arbitrate", STATUS_REFUNDED>>}

C5_AsStated ==
  Created =>
    escrow_lamports = IF IsTerminal(escrow.status) THEN 0 ELSE escrow.amount

\* C5 (amended): the lamports held under the record's address are `amount`
\* plus the rent-exempt minimum the account was created with while the
\* status is Active, Delivered or Disputed, and that rent-exempt minimum
\* once the status is Released or Refunded.
C5_CustodialBalance ==
  Created =>
    escrow_lamports =
      IF IsTerminal(escrow.status) THEN minimum_balance(ESCROW_SIZE)
      ELSE minimum_balance(ESCROW_SIZE) + escrow.amount

\* an AcceptDelivery has just emptied custody down to the rent reserve
C5_Witness ==
  /\ Created
  /\ last.op = "AcceptDelivery"
  /\ last.result = Ok
  /\ escrow.status = STATUS_RELEASED
  /\ escrow.amount = MaxAmount
  /\ escrow_lamports = minimum_balance(ESCROW_SIZE)

\* ------------------------------------------------------------------------
\* C6
\* ------------------------------------------------------------------------
\* C6: a step that makes the status Released is an AcceptDelivery or Release
\* signed by the stored buyer with the stored buyer and seller accounts, or
\* an Arbitrate signed by the stored arbitrator with a non-zero decision;
\* and for a seller that is neither the stored buyer nor the stored
\* arbitrator, a step in which nobody but the seller presents signing
\* authority neither makes the status Released nor changes the seller's
\* balance.
C6_ReleaseAuthority ==
  [][Created =>
       /\ (escrow'.status = STATUS_RELEASED /\ escrow.status # STATUS_RELEASED)
            => \/ /\ last'.op \in {"AcceptDelivery", "Release"}
                  /\ last'.signed
                  /\ last'.actor = escrow.buyer
                  /\ last'.buyer = escrow.buyer
                  /\ last'.seller = escrow.seller
               \/ /\ last'.op = "Arbitrate"
                  /\ last'.signed
                  /\ last'.actor = escrow.arbitrator
                  /\ last'.data # <<>>
                  /\ last'.data[1] # 0
       /\ (/\ escrow.seller \notin {escrow.buyer, escrow.arbitrator}
           /\ ~(last'.signed /\ last'.actor # escrow.seller))
            => /\ escrow.status # STATUS_RELEASED
                    => escrow'.status # STATUS_RELEASED
               /\ lamports'[escrow.seller] = lamports[escrow.seller]]_vars

\* the record was released by its arbitrator, a third party, with decision
\* byte 255
C6_Witness ==
  /\ Created
  /\ escrow.arbitrator \notin {escrow.buyer, escrow.seller}
  /\ escrow.seller # escrow.buyer
  /\ escrow.status = STATUS_RELEASED
  /\ last.op = "Arbitrate"
  /\ last.actor = escrow.arbitrator
  /\ last.data = <<255>>
  /\ last.result = Ok
  /\ paid[escrow.seller] = escrow.amount

\* ------------------------------------------------------------------------
\* C7
\* ------------------------------------------------------------------------
\* the Refund rule of the specification, with the deadline computed in
\* unbounded integers
RefundAllowed(e, authority, status, t) ==
  \/ authority = e.seller
  \/ /\ authority = e.buyer
     /\ \/ status = STATUS_ACTIVE
        \/ e.timeout_seconds > 0 /\ t >= e.created_at + e.timeout_seconds
  \/ authority = e.arbitrator /\ status = STATUS_DISPUTED

\* a Refund that addresses the record with the stored buyer and seller
\* accounts has just been processed
RefundProcessed ==
  /\ Created
  /\ last.op = "Refund"
  /\ last.n = 4
  /\ last.buyer = escrow.buyer
  /\ last.seller = escrow.seller

\* C7 as stated: a Refund on a non-terminal record succeeds iff the acting
\* party signed and is the stored seller, or the stored buyer with the status
\* Active or with timeout_seconds > 0 and now >= created_at +
\* timeout_seconds, or the stored arbitrator with the status Disputed; a
\* denied Refund changes nothing.
C7_AsStated ==
  (RefundProcessed /\ ~IsTerminal(last.prev_status))
    => /\ last.result = Ok
            <=> /\ last.signed
                /\ RefundAllowed(escrow, last.actor, last.prev_status, now)
       /\ last.result # Ok => escrow.status = last.prev_status

\* ------------------------------------------------------------------------
\* C8
\* ------------------------------------------------------------------------
\* the stored buyer, who is neither the stored seller nor the stored
\* arbitrator, signed the Refund that has just been processed
BuyerRefundProcessed ==
  /\ RefundProcessed
  /\ last.signed
  /\ last.actor = escrow.buyer
  /\ escrow.buyer \notin {escrow.seller, escrow.arbitrator}

\* C8: with timeout_seconds = 259200 and the status Delivered, a Refund
\* signed by such a buyer succeeds iff now >= created_at + 259200: it is
\* denied up to created_at + 259199 and leaves the status Delivered.
C8_TimeoutBoundary ==
  (/\ BuyerRefundProcessed
   /\ last.prev_status = STATUS_DELIVERED
   /\ escrow.timeout_seconds = TIMEOUT_3_DAYS)
    => /\ last.result = Ok <=> now >= escrow.created_at + TIMEOUT_3_DAYS
       /\ now <= escrow.created_at + TIMEOUT_3_DAYS - 1
            => escrow.status = STATUS_DELIVERED

\* the buyer's Refund went through at exactly created_at + 259200, for a
\* record not created at time 0
C8_Witness ==
  /\ BuyerRefundProcessed
  /\ last.prev_status = STATUS_DELIVERED
  /\ escrow.timeout_seconds = TIMEOUT_3_DAYS
  /\ escrow.created_at > 0
  /\ now = escrow.created_at + TIMEOUT_3_DAYS
  /\ last.result = Ok
  /\ escrow.status = STATUS_REFUNDED

\* ------------------------------------------------------------------------
\* C9
\* ------------------------------------------------------------------------
\* C9: with timeout_seconds = 0, a Refund signed by a buyer who is neither
\* the stored seller nor the stored arbitrator is denied from Delivered and
\* from Disputed at every time, and the status stays as it was.
C9_NoTimeout ==
  (/\ BuyerRefundProcessed
   /\ last.prev_status \in {STATUS_DELIVERED, STATUS_DISPUTED}
   /\ escrow.timeout_seconds = 0)
    => /\ last.result = InvalidAccountData
       /\ escrow.status = last.prev_status

\* such a Refund was denied from Disputed three days after the record was
\* created
C9_Witness ==
  /\ BuyerRefundProcessed
  /\ last.prev_status = STATUS_DISPUTED
  /\ escrow.timeout_seconds = 0
  /\ now >= escrow.created_at + TIMEOUT_3_DAYS
  /\ last.result = InvalidAccountData

\* ------------------------------------------------------------------------
\* C10
\* ------------------------------------------------------------------------
\* C10: while the status is Disputed, a Release or AcceptDelivery signed by
\* the stored buyer fails with InvalidState and changes neither the record
\* nor a balance, and a step that makes the status Released is an Arbitrate
\* with a non-zero decision.
C10_DisputedBarsRelease ==
  [][(Created /\ escrow.status = STATUS_DISPUTED) =>
       /\ (/\ last'.op \in {"Release", "AcceptDelivery"}
           /\ last'.signed
           /\ last'.actor = escrow.buyer)
            => /\ last'.result = InvalidState
               /\ UNCHANGED <<escrow, escrow_lamports, lamports>>
       /\ escrow'.status = STATUS_RELEASED
            => /\ last'.op = "Arbitrate"
               /\ last'.data # <<>>
               /\ last'.data[1] # 0]_vars

\* the buyer's Release, with the right seller account, was refused on a
\* Disputed record
C10_Witness ==
  /\ Created
  /\ escrow.status = STATUS_DISPUTED
  /\ last.op = "Release"
  /\ last.signed
  /\ last.actor = escrow.buyer
  /\ last.seller = escrow.seller
  /\ last.prev_status = STATUS_DISPUTED
  /\ last.result = InvalidState

\* ------------------------------------------------------------------------
\* C11
\* ------------------------------------------------------------------------
\* the two Refund paths the specification leaves open while Disputed: the
\* stored arbitrator, or the stored buyer once the deadline (in unbounded
\* integers) has passed
DisputedRefundPath(e, authority, t) ==
  \/ authority = e.arbitrator
  \/ /\ authority = e.buyer
     /\ e.timeout_seconds > 0
     /\ t >= e.created_at + e.timeout_seconds

\* C11 as stated: while the status is Disputed, a Refund signed by a party
\* that is neither the stored arbitrator nor the stored buyer past the
\* deadline is denied and the status stays Disputed.
C11_AsStated ==
  (/\ RefundProcessed
   /\ last.signed
   /\ last.prev_status = STATUS_DISPUTED
   /\ ~DisputedRefundPath(escrow, last.actor, now))
    => /\ last.result # Ok
       /\ escrow.status = STATUS_DISPUTED

\* ------------------------------------------------------------------------
\* C12
\* ------------------------------------------------------------------------
\* C12: an Arbitrate that succeeds was signed by accounts[0], whose address
\* is the stored arbitrator and not the all-zero key, was given the stored
\* buyer and seller accounts, and found the status Disputed; on a record
\* whose arbitrator is the all-zero key no Arbitrate succeeds.
C12_ArbitrateAuthority ==
  (Created /\ last.op = "Arbitrate")
    => /\ last.result = Ok
            => /\ last.signed
               /\ last.actor = escrow.arbitrator
               /\ escrow.arbitrator # ZERO_KEY
               /\ last.buyer = escrow.buyer
               /\ last.seller = escrow.seller
               /\ last.prev_status = STATUS_DISPUTED
       /\ escrow.arbitrator = ZERO_KEY => last.result # Ok

\* on a Disputed record without arbitrator, an Arbitrate signed by the
\* stored buyer with the stored accounts and a decision byte was refused
C12_Witness ==
  /\ Created
  /\ escrow.arbitrator = ZERO_KEY
  /\ escrow.status = STATUS_DISPUTED
  /\ last.op = "Arbitrate"
  /\ last.signed
  /\ last.actor = escrow.buyer
  /\ last.buyer = escrow.buyer
  /\ last.seller = escrow.seller
  /\ last.data = <<1>>
  /\ last.result = InvalidAccountData

\* ------------------------------------------------------------------------
\* C13
\* ------------------------------------------------------------------------
\* C13: a successful Arbitrate with decision byte 0 makes the status
\* Refunded and moves `amount` from custody to the buyer, with any other
\* decision byte it makes the status Released and moves `amount` from
\* custody to the seller; a signed Arbitrate with an empty payload fails
\* with MalformedInput and changes nothing.
C13_Decision ==
  [][(Created /\ last'.op = "Arbitrate") =>
       /\ (last'.result = Ok /\ last'.data[1] = 0)
            => /\ escrow'.status = STATUS_REFUNDED
               /\ lamports'[escrow.buyer] = lamports[escrow.buyer] + escrow.amount
               /\ paid'[escrow.buyer] = paid[escrow.buyer] + escrow.amount
               /\ escrow_lamports' = escrow_lamports - escrow.amount
       /\ (last'.result = Ok /\ last'.data[1] # 0)
            => /\ escrow'.status = STATUS_RELEASED
               /\ lamports'[escrow.seller] = lamports[escrow.seller] + escrow.amount
               /\ paid'[escrow.seller] = paid[escrow.seller] + escrow.amount
               /\ escrow_lamports' = escrow_lamports - escrow.amount
       /\ (last'.signed /\ last'.data = <<>>)
            => /\ last'.result = MalformedInput
               /\ UNCHANGED <<escrow, escrow_lamports, lamports, paid>>]_vars

\* the arbitrator, a third party, refunded a disputed record with decision
\* byte 0 to a buyer who is not the seller
C13_Witness ==
  /\ Created
  /\ escrow.buyer # escrow.seller
  /\ escrow.arbitrator \notin {escrow.buyer, escrow.seller}
  /\ last.op = "Arbitrate"
  /\ last.data = <<0>>
  /\ last.result = Ok
  /\ last.prev_status = STATUS_DISPUTED
  /\ escrow.status = STATUS_REFUNDED
  /\ paid[escrow.buyer] = escrow.amount
  /\ paid[escrow.seller] = 0

C15_MarkDelivered ==
  [][(Created /\ last'.op = "MarkDelivered") =>
       /\ last'.result = Ok
            <=> /\ last'.signed
                /\ last'.actor = escrow.seller
                /\ escrow.status = STATUS_ACTIVE
       /\ last'.result = Ok
            => /\ escrow'.status = STATUS_DELIVERED
               /\ HasFlag(escrow'.flags, FLAG_SELLER_DELIVERED)
       /\ last'.result # Ok => escrow' = escrow
       /\ UNCHANGED <<escrow_lamports, lamports, paid>>]_vars

\* the seller, who is not the buyer, has marked an Active record delivered
C15_Witness ==
  /\ Created
  /\ escrow.buyer # escrow.seller
  /\ last.op = "MarkDelivered"
  /\ last.actor = escrow.seller
  /\ last.prev_status = STATUS_ACTIVE
  /\ last.result = Ok
  /\ escrow.status = STATUS_DELIVERED
  /\ escrow.flags = FLAG_SELLER_DELIVERED

\* ------------------------------------------------------------------------
\* C16
\* ------------------------------------------------------------------------
\* C16: an AcceptDelivery that succeeds found the status Delivered (from
\* Active and from Disputed it is denied); it makes the status Released,
\* sets the buyer-accepted flag, adds `amount` to the seller's balance and
\* takes `amount` from the custodial balance.
C16_AcceptDelivery ==
  [][(Created /\ last'.op = "AcceptDelivery") =>
       /\ last'.result = Ok
            => /\ escrow.status = STATUS_DELIVERED
               /\ escrow'.status = STATUS_RELEASED
               /\ HasFlag(escrow'.flags, FLAG_BUYER_ACCEPTED)
               /\ lamports'[escrow.seller]
                    = lamports[escrow.seller] + escrow.amount
               /\ escrow_lamports' = escrow_lamports - escrow.amount
       /\ escrow.status \in {STATUS_ACTIVE, STATUS_DISPUTED}
            => /\ last'.result # Ok
               /\ UNCHANGED <<escrow, escrow_lamports, lamports, paid>>]_vars

\* the buyer has accepted a delivery by a seller who is not the buyer
C16_Witness ==
  /\ Created
  /\ escrow.buyer # escrow.seller
  /\ last.op = "AcceptDelivery"
  /\ last.actor = escrow.buyer
  /\ last.prev_status = STATUS_DELIVERED
  /\ last.result = Ok
  /\ escrow.status = STATUS_RELEASED
  /\ escrow.flags = FLAG_SELLER_DELIVERED + FLAG_BUYER_ACCEPTED
  /\ lamports[escrow.seller] = InitialLamports + escrow.amount

\* ------------------------------------------------------------------------
\* C17
\* ------------------------------------------------------------------------
\* C17 as stated: Dispute succeeds iff the signer is the stored buyer or the
\* stored seller and the status is Active or Delivered; on success the
\* status becomes Disputed, the buyer-disputed flag is set iff the buyer
\* raised it and the seller-disputed flag iff the seller raised it, and no
\* balance changes.
C17_AsStated ==
  [][(Created /\ last'.op = "Dispute") =>
       /\ last'.result = Ok
            <=> /\ last'.signed
                /\ last'.actor \in {escrow.buyer, escrow.seller}
                /\ escrow.status \in {STATUS_ACTIVE, STATUS_DELIVERED}
       /\ last'.result = Ok
            => /\ escrow'.status = STATUS_DISPUTED
               /\ HasFlag(escrow'.flags, FLAG_BUYER_DISPUTED)
                    <=> last'.actor = escrow.buyer
               /\ HasFlag(escrow'.flags, FLAG_SELLER_DISPUTED)
                    <=> last'.actor = escrow.seller
       /\ UNCHANGED <<escrow_lamports, lamports, paid>>]_vars

\* C17 (amended): as above, but the seller-disputed flag is set iff the
\* signer is the stored seller and not also the stored buyer: a party that
\* is both raises the dispute as the buyer.  A denied Dispute changes
\* nothing.
C17_Dispute ==
  [][(Created /\ last'.op = "Dispute") =>
       /\ last'.result = Ok
            <=> /\ last'.signed
                /\ last'.actor \in {escrow.buyer, escrow.seller}
                /\ escrow.status \in {STATUS_ACTIVE, STATUS_DELIVERED}
       /\ last'.result = Ok
            => /\ escrow'.status = STATUS_DISPUTED
               /\ HasFlag(escrow'.flags, FLAG_BUYER_DISPUTED)
                    <=> last'.actor = escrow.buyer
               /\ HasFlag(escrow'.flags, FLAG_SELLER_DISPUTED)
                    <=> (last'.actor = escrow.seller
                         /\ last'.actor # escrow.buyer)
       /\ last'.result # Ok => escrow' = escrow
       /\ UNCHANGED <<escrow_lamports, lamports, paid>>]_vars

\* the seller, who is not the buyer, has disputed a record it had marked
\* delivered
C17_Witness ==
  /\ Created
  /\ escrow.buyer # escrow.seller
  /\ last.op = "Dispute"
  /\ last.actor = escrow.seller
  /\ last.prev_status = STATUS_DELIVERED
  /\ last.result = Ok
  /\ escrow.status = STATUS_DISPUTED
  /\ escrow.flags = FLAG_SELLER_DELIVERED + FLAG_SELLER_DISPUTED

WouldSucceed(e, el, lam, t) ==
  {<<"AcceptDelivery", tx>> :
     tx \in {x \in AcceptDeliveryCalls(e) :
               AcceptDeliveryResult(e, x, el, lam) = Ok}}
  \cup {<<"Release", tx>> :
     tx \in {x \in ReleaseV2Calls(e) : ReleaseV2Result(e, x, el, lam) = Ok}}
  \cup {<<"Refund", tx>> :
     tx \in {x \in RefundV2Calls(e) :
               \E oc \in BOOLEAN : RefundV2Result(e, x, el, lam, t, oc) = Ok}}
  \cup {<<"Arbitrate", tx>> :
     tx \in {x \in ArbitrateCalls(e) : ArbitrateResult(e, x, el, lam) = Ok}}

\* C19: instructions on one record are processed one after the other, so of
\* two terminal operations submitted together the one processed first
\* finds a non-terminal record, makes it terminal and pays `amount` out of
\* custody in the same step, after which no terminal operation would
\* succeed; the one processed second finds the terminal status with the
\* funds moved, fails and changes nothing; the amount is paid once, and in
\* no state is the status terminal with the amount still in custody.
C19_Serialized ==
  [][Created =>
       /\ (last'.op \in TerminalOps /\ last'.result = Ok)
            => /\ ~IsTerminal(escrow.status)
               /\ TotalPaid = 0
               /\ IsTerminal(escrow'.status)
               /\ escrow_lamports' = escrow_lamports - escrow.amount
               /\ SumOver(paid', Keys) = escrow.amount
               /\ WouldSucceed(escrow', escrow_lamports', lamports', now') = {}
       /\ (last'.op \in TerminalOps /\ IsTerminal(escrow.status))
            => /\ last'.result # Ok
               /\ UNCHANGED <<escrow, escrow_lamports, lamports, paid>>
       /\ IsTerminal(escrow'.status)
            => escrow_lamports' = minimum_balance(ESCROW_SIZE)]_vars

\* the seller's Refund was processed first: the buyer's Release, with the
\* right accounts, found the record Refunded and was refused, and the
\* amount has been paid once, to the buyer
C19_Witness ==
  /\ Created
  /\ escrow.buyer # escrow.seller
  /\ escrow.status = STATUS_REFUNDED
  /\ last.op = "Release"
  /\ last.signed
  /\ last.actor = escrow.buyer
  /\ last.seller = escrow.seller
  /\ last.prev_status = STATUS_REFUNDED
  /\ last.result # Ok
  /\ OnlyPaid(escrow.buyer, escrow.amount)
  /\ escrow_lamports = minimum_balance(ESCROW_SIZE)

\* ------------------------------------------------------------------------
\* C20
\* ------------------------------------------------------------------------
FlagBits ==
  {FLAG_SELLER_DELIVERED, FLAG_BUYER_ACCEPTED, FLAG_BUYER_DISPUTED,
   FLAG_SELLER_DISPUTED}

\* C20: after Create, a flag bit that is set stays set in every later
\* state: no step clears a flag.
C20_FlagsMonotone ==
  [][Created =>
       \A bit \in FlagBits :
         HasFlag(escrow.flags, bit) => HasFlag(escrow'.flags, bit)]_vars

\* a record that was marked delivered and then disputed by the buyer has
\* been refunded, and still carries both flags
C20_Witness ==
  /\ Created
  /\ escrow.status = STATUS_REFUNDED
  /\ last.op \in {"Refund", "Arbitrate"}
  /\ last.result = Ok
  /\ last.prev_status = STATUS_DISPUTED
  /\ escrow.flags = FLAG_SELLER_DELIVERED + FLAG_BUYER_DISPUTED

\* ------------------------------------------------------------------------
\* C21
\* ------------------------------------------------------------------------
\* the values a flags byte takes over the four defined bits
FlagsBytes == 0..15

\* the call a digest records
TxOf(d) == Tx(d.n, d.actor, d.signed, d.buyer, d.seller, d.data)

\* a record instruction on record `e`: its ProgramResult and the account
\* buffers as it leaves them
Returned(op, e, tx, el, lam, t, overflow_checks) ==
  LET r == CASE op = "MarkDelivered" -> MarkDeliveredResult(e, tx)
             [] op = "AcceptDelivery" -> AcceptDeliveryResult(e, tx, el, lam)
             [] op = "Release" -> ReleaseV2Result(e, tx, el, lam)
             [] op = "Refund" ->
                  RefundV2Result(e, tx, el, lam, t, overflow_checks)
             [] op = "Dispute" -> DisputeResult(e, tx)
             [] op = "Arbitrate" -> ArbitrateResult(e, tx, el, lam)
  IN [result |-> r,
      buffers |->
        CASE op = "MarkDelivered" ->
               AtReturn(r, e, MarkDeliveredApply(e), tx.actor, 0)
          [] op = "AcceptDelivery" ->
               AtReturn(r, e, AcceptDeliveryApply(e), tx.seller, e.amount)
          [] op = "Release" ->
               AtReturn(r, e, ReleaseV2Apply(e), tx.seller, e.amount)
          [] op = "Refund" ->
               AtReturn(r, e, RefundV2Apply(e), tx.buyer, e.amount)
          [] op = "Dispute" ->
               AtReturn(r, e, DisputeApply(e, tx.actor), tx.actor, 0)
          [] op = "Arbitrate" ->
               IF tx.data = <<>>
                 THEN AtReturn(r, e, e, tx.actor, 0)
                 ELSE AtReturn(r, e, ArbitrateApply(e, tx.data[1]),
                               ArbitrateRecipient(tx), e.amount)]

\* what the instruction does for its caller: its ProgramResult, the status
\* it leaves, and who receives how many lamports
Outcome(op, e, tx, el, lam, t, overflow_checks) ==
  CHOOSE o \in
    {[result |-> R.result,
      status |-> IF R.result = Ok THEN R.buffers.escrow.status ELSE e.status,
      to |-> IF R.result = Ok /\ R.buffers.credit > 0
               THEN R.buffers.to ELSE ZERO_KEY,
      moved |-> IF R.result = Ok THEN R.buffers.credit ELSE 0] :
       R \in {Returned(op, e, tx, el, lam, t, overflow_checks)}} : TRUE

\* No handler but Create checks the owner or the derivation of the escrow
\* account it is given, so a record a handler finds is any 195-byte buffer
\* that carries the tag: here a record as Create writes it, with any status
\* byte and any flags byte
AnyFlagsRecords ==
  {[CreateEscrowV2Apply(g, 0) EXCEPT !.status = s, !.flags = f] :
     g \in {c \in GoodCreateCalls : /\ c.data.amount = MaxAmount
                                    /\ c.seller # c.actor
                                    /\ c.arbitrator = NumKeys
                                    /\ c.data.timeout_seconds <= TIMEOUT_3_DAYS},
     s \in STATUS_ACTIVE..STATUS_REFUNDED, f \in FlagsBytes}

InitAnyFlags ==
  /\ escrow \in AnyFlagsRecords
  /\ escrow_lamports = minimum_balance(ESCROW_SIZE)
        + (IF IsTerminal(escrow.status) THEN 0 ELSE escrow.amount)
  /\ lamports = [k \in Keys |-> InitialLamports]
  /\ now \in 0..MaxStart
  /\ last = NoCall
  /\ paid = [k \in Keys |-> 0]

SpecAnyFlags == InitAnyFlags /\ [][Next]_vars

\* C21: flags never gate a transition.  Whenever an instruction is processed
\* on a record, the same instruction (same signer, accounts, payload, clock
\* and balances) on a record that differs only in its flags byte, whatever
\* that byte is, has the same result, leaves the same status and moves the
\* same lamports to the same recipient.
C21_FlagsNeverGate ==
  [][(Created /\ last'.op \in RecordOps) =>
       LET tx == TxOf(last')
           Modes == IF last'.op = "Refund" THEN BOOLEAN ELSE {TRUE}
       IN /\ \E m \in Modes :
               \E here \in {Outcome(last'.op, escrow, tx, escrow_lamports,
                                    lamports, now, m)} :
                 /\ here.result = last'.result
                 /\ here.status = escrow'.status
                 /\ here.moved = escrow_lamports - escrow_lamports'
          /\ \A m \in Modes :
               \A here \in {Outcome(last'.op, escrow, tx, escrow_lamports,
                                    lamports, now, m)} :
                 \A f \in FlagsBytes :
                   Outcome(last'.op, [escrow EXCEPT !.flags = f], tx,
                           escrow_lamports, lamports, now, m) = here]_vars

\* the buyer has released an Active record whose flags byte has all four
\* bits set
C21_Witness ==
  /\ last.op = "Release"
  /\ last.result = Ok
  /\ last.prev_status = STATUS_ACTIVE
  /\ escrow.status = STATUS_RELEASED
  /\ escrow.flags = 15

\* ------------------------------------------------------------------------
\* C22
\* ------------------------------------------------------------------------
\* C22: the status Accepted (2) is never reached.  In every state that
\* follows Create the status is Active, Delivered, Disputed, Released or
\* Refunded, no instruction leaves the value 2 in the status byte of its
\* buffer, and every Release that succeeded found the record Active or
\* Delivered.
C22_NeverAccepted ==
  /\ Created =>
       escrow.status \in {STATUS_ACTIVE, STATUS_DELIVERED, STATUS_DISPUTED,
                          STATUS_RELEASED, STATUS_REFUNDED}
  /\ last.written_status # STATUS_ACCEPTED
  /\ last.prev_status # STATUS_ACCEPTED
  /\ (last.op = "Release" /\ last.result = Ok) =>
       last.prev_status \in {STATUS_ACTIVE, STATUS_DELIVERED}

\* the buyer has accepted a delivery: the accepted flag is set and the
\* status went from Delivered straight to Released
C22_Witness ==
  /\ Created
  /\ last.op = "AcceptDelivery"
  /\ last.result = Ok
  /\ last.prev_status = STATUS_DELIVERED
  /\ HasFlag(escrow.flags, FLAG_BUYER_ACCEPTED)
  /\ escrow.status = STATUS_RELEASED

\* ------------------------------------------------------------------------
\* C23
\* ------------------------------------------------------------------------
\* the position of a status in the order Active < Delivered < Disputed <
\* Released, Refunded; the two terminal statuses share the last position
StatusRank(status) ==
  CASE status = STATUS_ACTIVE -> 0
    [] status = STATUS_DELIVERED -> 1
    [] status = STATUS_DISPUTED -> 2
    [] IsTerminal(status) -> 3

\* the status changes a record has undergone, as its flags and its status
\* record them: one when it was marked delivered, one when it was disputed,
\* one when it became terminal
StatusChanges(e) ==
  (IF HasFlag(e.flags, FLAG_SELLER_DELIVERED) THEN 1 ELSE 0)
  + (IF HasFlag(e.flags, FLAG_BUYER_DISPUTED)
        \/ HasFlag(e.flags, FLAG_SELLER_DISPUTED) THEN 1 ELSE 0)
  + (IF IsTerminal(e.status) THEN 1 ELSE 0)

\* C23: the status never regresses.  A created record has undergone no
\* status change.  Every step leaves the status of an
\* existing record as it is or makes it strictly greater (as a number and
\* in the order Active < Delivered < Disputed < terminal); every successful
\* instruction on an existing record makes it strictly greater; each such
\* instruction is one more status change, and no record undergoes more than
\* three.
C23_NoRegress ==
  [][/\ (last'.op = "Create" /\ last'.result = Ok) =>
          StatusChanges(escrow') = 0
     /\ Created =>
       /\ escrow'.status >= escrow.status
       /\ StatusRank(escrow'.status) >= StatusRank(escrow.status)
       /\ (last'.op \in RecordOps /\ last'.result = Ok) =>
            /\ escrow'.status > escrow.status
            /\ StatusRank(escrow'.status) > StatusRank(escrow.status)
            /\ StatusChanges(escrow') = StatusChanges(escrow) + 1
       /\ (escrow'.status # escrow.status) =>
            (last'.op \in RecordOps /\ last'.result = Ok)
       /\ StatusChanges(escrow') <= 3]_vars

\* a record that underwent three status changes: marked delivered,
\* disputed by the seller, released by the arbitrator
C23_Witness ==
  /\ Created
  /\ StatusChanges(escrow) = 3
  /\ escrow.status = STATUS_RELEASED
  /\ HasFlag(escrow.flags, FLAG_SELLER_DISPUTED)
  /\ last.op = "Arbitrate"
  /\ last.result = Ok

\* ------------------------------------------------------------------------
\* C24
\* ------------------------------------------------------------------------
\* the record without its status and flags bytes
Terms(e) == [e EXCEPT !.status = 0, !.flags = 0]

\* C24: after Create no step changes the record's buyer, seller,
\* arbitrator, mint, amount, created_at, timeout_seconds, terms_hash or
\* bump (nor its tag, length or address): only the status and flags bytes
\* change, and no balance moves unless the status becomes terminal.
C24_Frame ==
  [][Created =>
       /\ escrow'.buyer = escrow.buyer
       /\ escrow'.seller = escrow.seller
       /\ escrow'.arbitrator = escrow.arbitrator
       /\ escrow'.mint = escrow.mint
       /\ escrow'.amount = escrow.amount
       /\ escrow'.created_at = escrow.created_at
       /\ escrow'.timeout_seconds = escrow.timeout_seconds
       /\ escrow'.terms_hash = escrow.terms_hash
       /\ escrow'.bump = escrow.bump
       /\ Terms(escrow') = Terms(escrow)
       /\ (~IsTerminal(escrow'.status) \/ IsTerminal(escrow.status)) =>
            UNCHANGED <<escrow_lamports, lamports>>]_vars

\* a record created with the three-day timeout and the third key as
\* arbitrator has been marked delivered, disputed and arbitrated, and still
\* holds the terms it was created with
C24_Witness ==
  /\ Created
  /\ last.op = "Arbitrate"
  /\ last.result = Ok
  /\ escrow.flags = FLAG_SELLER_DELIVERED + FLAG_SELLER_DISPUTED
  /\ escrow.buyer = 1
  /\ escrow.seller = 2
  /\ escrow.arbitrator = 3
  /\ escrow.amount = MaxAmount
  /\ escrow.timeout_seconds = TIMEOUT_3_DAYS
  /\ escrow.terms_hash = 171
  /\ escrow.bump = 255
  /\ escrow.created_at <= now

\* ------------------------------------------------------------------------
\* C25
\* ------------------------------------------------------------------------
\* C25: in AcceptDelivery, Release, Refund and Arbitrate the status is
\* written before any balance is changed and the balance movement comes
\* last.  A call that fails a check has written nothing and moved nothing.
\* A call that reaches the movement has written the terminal status to its
\* buffer first: if the credit fails, the status is written and no balance
\* has changed; if the debit fails, the status is written and the credit
\* made; and once the debit is made nothing fails any more: the result is
\* Ok, the credit and the debit are both the record's amount, and the
\* record is as the status write left it.
C25_StatusThenTransfer ==
  [][(Created /\ last'.op \in TerminalOps) =>
       IF last'.result \notin {Ok, ArithmeticOverflow, InsufficientFunds}
         THEN /\ last'.written_status = escrow.status
              /\ UNCHANGED <<escrow, escrow_lamports, lamports>>
         ELSE
           \E m \in (IF last'.op = "Refund" THEN BOOLEAN ELSE {TRUE}) :
             \E R \in {Returned(last'.op, escrow, TxOf(last'),
                                escrow_lamports, lamports, now, m)} :
               \E d \in {R.buffers} :
                 /\ R.result = last'.result
                 /\ d.escrow.status = last'.written_status
                 /\ IsTerminal(d.escrow.status)
                 /\ ~IsTerminal(escrow.status)
                 /\ R.result = ArithmeticOverflow =>
                      d.credit = 0 /\ d.debit = 0
                 /\ R.result = InsufficientFunds =>
                      d.credit = escrow.amount /\ d.debit = 0
                 /\ d.debit > 0 => R.result = Ok
                 /\ R.result = Ok =>
                      /\ d.credit = escrow.amount
                      /\ d.debit = escrow.amount
                      /\ escrow' = d.escrow
                      /\ escrow_lamports' = escrow_lamports - d.debit
                      /\ lamports'[d.to] = lamports[d.to] + d.credit]_vars

\* a Release whose credit to the seller overflowed: it returned after it
\* had written Released and before it changed a balance
C25_Witness ==
  /\ Created
  /\ last.op = "Release"
  /\ last.result = ArithmeticOverflow
  /\ last.prev_status = STATUS_ACTIVE
  /\ last.written_status = STATUS_RELEASED
  /\ escrow.status = STATUS_ACTIVE
  /\ escrow_lamports = minimum_balance(ESCROW_SIZE) + escrow.amount

\* ------------------------------------------------------------------------
\* C26
\* ------------------------------------------------------------------------
\* C26: the debit leg never fails.  After Create, while the status is not
\* terminal the escrow account holds at least the record's amount (the
\* rent-exempt minimum and the amount), so no instruction returns
\* InsufficientFunds and no instruction returns with the recipient
\* credited and the escrow account not debited.
C26_DebitNeverFails ==
  /\ last.result # InsufficientFunds
  /\ (Created /\ ~IsTerminal(escrow.status)) =>
       /\ escrow_lamports >= escrow.amount
       /\ escrow_lamports = minimum_balance(ESCROW_SIZE) + escrow.amount
  /\ (Created /\ last.op \in TerminalOps /\ last.result = Ok) =>
       /\ escrow_lamports >= 0
       /\ escrow_lamports = minimum_balance(ESCROW_SIZE)

\* the buyer has taken back the largest amount from an Active record: the
\* checks passed, the debit went through and left the rent-exempt minimum
C26_Witness ==
  /\ Created
  /\ last.op = "Refund"
  /\ last.result = Ok
  /\ last.actor = escrow.buyer
  /\ last.prev_status = STATUS_ACTIVE
  /\ escrow.amount = MaxAmount
  /\ escrow_lamports = minimum_balance(ESCROW_SIZE)
  /\ paid[escrow.buyer] = MaxAmount

\* ------------------------------------------------------------------------
\* C27
\* ------------------------------------------------------------------------
\* the specification's other error names, as ProgramError values
MissingAuthorization == MissingRequiredSignature
InvalidRecord == InvalidAccountData

\* accounts a record instruction needs
AccountsNeeded(op) ==
  CASE op \in {"MarkDelivered", "Dispute"} -> 2
    [] op \in {"AcceptDelivery", "Release"} -> 3
    [] op \in {"Refund", "Arbitrate"} -> 4

\* the call `d` reached the checks against the stored record: enough
\* accounts, a signature, a payload where one is needed
ReachedRecord(d) ==
  /\ Created
  /\ d.op \in RecordOps
  /\ d.n >= AccountsNeeded(d.op)
  /\ d.signed
  /\ d.op = "Arbitrate" => d.data # <<>>

\* an address the call supplies differs from the stored one
AddressMismatch(d) ==
  /\ ReachedRecord(d)
  /\ CASE d.op = "MarkDelivered" -> d.actor # escrow.seller
       [] d.op \in {"AcceptDelivery", "Release"} ->
            d.actor # escrow.buyer \/ d.seller # escrow.seller
       [] d.op = "Refund" ->
            d.buyer # escrow.buyer \/ d.seller # escrow.seller
       [] d.op = "Dispute" -> FALSE
       [] d.op = "Arbitrate" ->
            \/ d.actor # escrow.arbitrator
            \/ d.buyer # escrow.buyer
            \/ d.seller # escrow.seller

\* the signer of a Refund or a Dispute holds none of the roles the
\* instruction admits
RoleMismatch(d) ==
  /\ ReachedRecord(d)
  /\ ~AddressMismatch(d)
  /\ \/ /\ d.op = "Refund"
        /\ ~IsTerminal(d.prev_status)
        /\ d.actor \notin {escrow.buyer, escrow.seller, escrow.arbitrator}
     \/ /\ d.op = "Dispute"
        /\ d.actor \notin {escrow.buyer, escrow.seller}

\* the addresses and the signer are right and the status the call found is
\* outside the instruction's set
StatusOutside(d) ==
  /\ ReachedRecord(d)
  /\ ~AddressMismatch(d)
  /\ ~RoleMismatch(d)
  /\ CASE d.op = "MarkDelivered" -> d.prev_status # STATUS_ACTIVE
       [] d.op = "AcceptDelivery" -> d.prev_status # STATUS_DELIVERED
       [] d.op = "Release" ->
            d.prev_status \in
              {STATUS_DISPUTED, STATUS_RELEASED, STATUS_REFUNDED}
       [] d.op = "Refund" -> IsTerminal(d.prev_status)
       [] d.op = "Dispute" ->
            d.prev_status \notin {STATUS_ACTIVE, STATUS_DELIVERED}
       [] d.op = "Arbitrate" ->
            escrow.arbitrator # ZERO_KEY /\ d.prev_status # STATUS_DISPUTED

C28_AsStated ==
  (/\ last.op \in RecordOps
   /\ last.n >= AccountsNeeded(last.op)
   /\ last.signed
   /\ last.op = "Arbitrate" => last.data # <<>>
   /\ escrow.len < ESCROW_SIZE \/ escrow.disc # ESCROW_DISC)
  => /\ last.result = InvalidRecord
     /\ last.written_status = last.prev_status
     /\ TotalPaid = 0

\* ------------------------------------------------------------------------
\* The account layout and its codec (C29)
\* ------------------------------------------------------------------------
OFF_DISC == 0
OFF_BUYER == 8
OFF_SELLER == 40
OFF_ARBITRATOR == 72
OFF_MINT == 104
OFF_AMOUNT == 136
OFF_CREATED_AT == 144
OFF_TIMEOUT == 152
OFF_TERMS_HASH == 160
OFF_STATUS == 192
OFF_FLAGS == 193
OFF_BUMP == 194

\* a u64 is held as four 16-bit limbs, least significant first, so that
\* every u64 (the tag, u64::MAX) has a value here; U64Of is the u64 of a
\* number below 2^31
U64Of(n) == <<n % 65536, n \div 65536, 0, 0>>

\* ESCROW_DISC = 0x5041435445534352
ESCROW_DISC_U64 == <<17234, 17747, 17236, 20545>>

\* u64::to_le_bytes: byte i is bits 8i .. 8i+7 of the value
to_le_bytes(val) ==
  [i \in 1..8 |-> IF i % 2 = 1 THEN val[(i + 1) \div 2] % 256
                               ELSE val[i \div 2] \div 256]

\* u64::from_le_bytes
from_le_bytes(bytes) ==
  [j \in 1..4 |-> bytes[2 * j - 1] + 256 * bytes[2 * j]]

\* data[offset..offset + src.len()].copy_from_slice(src); the buffer is
\* indexed from 0 as in the code
copy_from_slice(data, offset, src) ==
  [i \in DOMAIN data |->
     IF offset <= i /\ i < offset + Len(src) THEN src[i - offset + 1]
     ELSE data[i]]

\* data[offset..offset + size]
Slice(data, offset, size) == [i \in 1..size |-> data[offset + i - 1]]

read_pubkey(data, offset) == Slice(data, offset, 32)

read_u64(data, offset) == from_le_bytes(Slice(data, offset, 8))

write_pubkey(data, offset, pk) == copy_from_slice(data, offset, pk)

\* (mutant) the value is stored most significant byte first
write_u64_BigEndian(data, offset, val) ==
  copy_from_slice(data, offset,
                  [i \in 1..8 |-> to_le_bytes(val)[9 - i]])

write_u64(data, offset, val) ==
  copy_from_slice(data, offset, to_le_bytes(val))

\* [b; 32]
Filled(b) == [i \in 1..32 |-> b]

\* the offsets of the fields, in the order Create writes them
FieldOffsets ==
  <<OFF_DISC, OFF_BUYER, OFF_SELLER, OFF_ARBITRATOR, OFF_MINT, OFF_AMOUNT,
    OFF_CREATED_AT, OFF_TIMEOUT, OFF_TERMS_HASH, OFF_STATUS, OFF_FLAGS,
    OFF_BUMP>>

NumFields == Len(FieldOffsets)

\* write k of a record

WriteStep(data, k, f) ==
  CASE k = 1 -> write_u64(data, OFF_DISC, f.disc)
    [] k = 2 -> write_pubkey(data, OFF_BUYER, f.buyer)
    [] k = 3 -> write_pubkey(data, OFF_SELLER, f.seller)
    [] k = 4 -> write_pubkey(data, OFF_ARBITRATOR, f.arbitrator)
    [] k = 5 -> copy_from_slice(data, OFF_MINT, f.mint)
    [] k = 6 -> write_u64(data, OFF_AMOUNT, f.amount)
    [] k = 7 -> write_u64(data, OFF_CREATED_AT, f.created_at)
    [] k = 8 -> write_u64(data, OFF_TIMEOUT, f.timeout_seconds)
    [] k = 9 -> copy_from_slice(data, OFF_TERMS_HASH, f.terms_hash)
    [] k = 10 -> [data EXCEPT ![OFF_STATUS] = f.status]
    [] k = 11 -> [data EXCEPT ![OFF_FLAGS] = f.flags]
    [] k = 12 -> [data EXCEPT ![OFF_BUMP] = f.bump]

\* the bytes write k touches
FieldRange(k) ==
  CASE k = 1 -> OFF_DISC..(OFF_DISC + 7)
    [] k = 2 -> OFF_BUYER..(OFF_BUYER + 31)
    [] k = 3 -> OFF_SELLER..(OFF_SELLER + 31)
    [] k = 4 -> OFF_ARBITRATOR..(OFF_ARBITRATOR + 31)
    [] k = 5 -> OFF_MINT..(OFF_MINT + 31)
    [] k = 6 -> OFF_AMOUNT..(OFF_AMOUNT + 7)
    [] k = 7 -> OFF_CREATED_AT..(OFF_CREATED_AT + 7)
    [] k = 8 -> OFF_TIMEOUT..(OFF_TIMEOUT + 7)
    [] k = 9 -> OFF_TERMS_HASH..(OFF_TERMS_HASH + 31)
    [] k = 10 -> {OFF_STATUS}
    [] k = 11 -> {OFF_FLAGS}
    [] k = 12 -> {OFF_BUMP}

\* the reads of a record, as the handlers and the layout test make them
ReadFieldsOf(data) ==
  [disc |-> read_u64(data, OFF_DISC),
   buyer |-> read_pubkey(data, OFF_BUYER),
   seller |-> read_pubkey(data, OFF_SELLER),
   arbitrator |-> read_pubkey(data, OFF_ARBITRATOR),
   mint |-> Slice(data, OFF_MINT, 32),
   amount |-> read_u64(data, OFF_AMOUNT),
   created_at |-> read_u64(data, OFF_CREATED_AT),
   timeout_seconds |-> read_u64(data, OFF_TIMEOUT),
   terms_hash |-> Slice(data, OFF_TERMS_HASH, 32),
   status |-> data[OFF_STATUS],
   flags |-> data[OFF_FLAGS],
   bump |-> data[OFF_BUMP]]

\* valid records: the values of the layout test and the extremes of each
\* field
CodecPubkeys == {Filled(1), Filled(2), [i \in 1..32 |-> i]}
CodecArbitrators == {Filled(0), Filled(3)}
CodecAmounts == {U64Of(1), U64Of(1000000000), <<65535, 65535, 65535, 65535>>}
CodecTimes == {U64Of(0), U64Of(1707544800)}
CodecTimeouts == {U64Of(0), U64Of(TIMEOUT_3_DAYS)}
CodecHashes == {Filled(171), [i \in 1..32 |-> 256 - i]}

CodecRecords ==
  [disc : {ESCROW_DISC_U64}, buyer : CodecPubkeys, seller : CodecPubkeys,
   arbitrator : CodecArbitrators, mint : {Filled(0)}, amount : CodecAmounts,
   created_at : CodecTimes, timeout_seconds : CodecTimeouts,
   terms_hash : CodecHashes, status : {STATUS_ACTIVE, STATUS_REFUNDED},
   flags : {0, 15}, bump : {0, 255}]

\* In this specification `escrow` is the account's data, a buffer of
\* ESCROW_SIZE zero bytes as the system program allocates it, and `last`
\* holds the record to write, the number of writes made, the bytes written
\* so far, whether a write touched a byte already written, and the record
\* read back
CodecInit ==
  /\ escrow = [i \in 0..(ESCROW_SIZE - 1) |-> 0]
  /\ last \in [op : {"write"}, fields : CodecRecords, pc : {0},
               written : {{}}, overlap : {FALSE}, read : {<<>>}]
  /\ escrow_lamports = minimum_balance(ESCROW_SIZE)
  /\ lamports = [k \in Keys |-> InitialLamports]
  /\ now = 0
  /\ paid = [k \in Keys |-> 0]

WriteField ==
  /\ last.op = "write"
  /\ last.pc < NumFields
  /\ escrow' = WriteStep(escrow, last.pc + 1, last.fields)
  /\ last' = [last EXCEPT
                !.pc = @ + 1,
                !.written = @ \cup FieldRange(last.pc + 1),
                !.overlap = @ \/ (last.written \cap FieldRange(last.pc + 1) # {})]
  /\ UNCHANGED <<escrow_lamports, lamports, now, paid>>

ReadFields ==
  /\ last.op = "write"
  /\ last.pc = NumFields
  /\ last' = [last EXCEPT !.op = "read", !.read = ReadFieldsOf(escrow)]
  /\ UNCHANGED <<escrow, escrow_lamports, lamports, now, paid>>

CodecNext == WriteField \/ ReadFields

SpecCodec == CodecInit /\ [][CodecNext]_vars

\* ------------------------------------------------------------------------
\* C29
\* ------------------------------------------------------------------------
\* C29: round-trip codec.  The fields sit at the offsets 0, 8, 40, 72, 104,
\* 136, 144, 152, 160, 192, 193, 194; writing every field of a valid record
\* at its offset (integers little-endian) and reading the fields back
\* returns every field unchanged; no write touches a byte another write has
\* touched, and the twelve writes together touch exactly the bytes 0..194.
C29_RoundTrip ==
  /\ FieldOffsets = <<0, 8, 40, 72, 104, 136, 144, 152, 160, 192, 193, 194>>
  /\ ~last.overlap
  /\ last.pc = NumFields =>
       /\ last.written = 0..(ESCROW_SIZE - 1)
       /\ Cardinality(last.written) = 195
       /\ \A i \in 1..8 :
            escrow[OFF_AMOUNT + i - 1] = to_le_bytes(last.fields.amount)[i]
  /\ last.op = "read" =>
       /\ last.read = last.fields
       /\ last.read.disc = ESCROW_DISC_U64
       /\ escrow[OFF_DISC] = 82
       /\ escrow[OFF_DISC + 7] = 80

\* the record of the layout test, written
\* and read back: the amount 1 000 000 000 sits in the buffer as the bytes
\* 00 CA 9A 3B 00 00 00 00
C29_Witness ==
  /\ last.op = "read"
  /\ last.read.buyer = Filled(1)
  /\ last.read.seller = Filled(2)
  /\ last.read.arbitrator = Filled(3)
  /\ last.read.amount = U64Of(1000000000)
  /\ last.read.created_at = U64Of(1707544800)
  /\ last.read.timeout_seconds = U64Of(259200)
  /\ last.read.terms_hash = Filled(171)
  /\ last.read.bump = 255
  /\ Slice(escrow, OFF_AMOUNT, 8) = <<0, 202, 154, 59, 0, 0, 0, 0>>

C31_AsStated ==
  (/\ BuyerRefundProcessed
   /\ last.prev_status = STATUS_DELIVERED
   /\ escrow.timeout_seconds > 0
   /\ now < escrow.created_at + escrow.timeout_seconds)
  => /\ last.result # Ok
     /\ escrow.status = STATUS_DELIVERED
     /\ paid[escrow.buyer] = 0

\* ------------------------------------------------------------------------
\* C32
\* ------------------------------------------------------------------------
\* the deadline of the record has come (in the unbounded integers)
DeadlinePassed(e, t) ==
  e.timeout_seconds > 0 /\ t >= e.created_at + e.timeout_seconds

\* C32 as stated, for the records whose seller is not the buyer and whose
\* deadline fits in u64: once the seller has marked delivery and before the
\* timeout is reached, operations signed by the buyer alone do not bring
\* the record to Refunded.  After MarkDelivered the only successful
\* operations are at most one Dispute and one terminal operation, so the
\* buyer alone has signed them when the buyer signed the terminal one and
\* the seller-disputed flag is not set.
C32_AsStated ==
  (/\ Created
   /\ escrow.seller # escrow.buyer
   /\ ~deadline_overflows(escrow)
   /\ HasFlag(escrow.flags, FLAG_SELLER_DELIVERED)
   /\ ~HasFlag(escrow.flags, FLAG_SELLER_DISPUTED)
   /\ last.op \in {"Refund", "Arbitrate"}
   /\ last.result = Ok
   /\ last.signed
   /\ last.actor = escrow.buyer)
  => (escrow.status = STATUS_REFUNDED => DeadlinePassed(escrow, now))

C34_AsStated ==
  /\ (/\ RefundProcessed
      /\ last.signed
      /\ last.actor = escrow.seller
      /\ ~IsTerminal(last.prev_status))
     => /\ last.result = Ok
        /\ escrow.status = STATUS_REFUNDED
  /\ (/\ Created
      /\ escrow.arbitrator = ZERO_KEY
      /\ last.prev_status = STATUS_DISPUTED
      /\ last.op \in RecordOps)
     => escrow.status # STATUS_RELEASED

\* ------------------------------------------------------------------------
\* C35
\* ------------------------------------------------------------------------
\* status and flags of the stored record agree
FlagsConsistent(e) ==
  /\ e.status = STATUS_DELIVERED => HasFlag(e.flags, FLAG_SELLER_DELIVERED)
  /\ e.status = STATUS_DISPUTED =>
       HasFlag(e.flags, FLAG_BUYER_DISPUTED)
         # HasFlag(e.flags, FLAG_SELLER_DISPUTED)
  /\ ~(/\ HasFlag(e.flags, FLAG_BUYER_DISPUTED)
       /\ HasFlag(e.flags, FLAG_SELLER_DISPUTED))
  /\ HasFlag(e.flags, FLAG_BUYER_ACCEPTED) =>
       /\ e.status = STATUS_RELEASED
       /\ HasFlag(e.flags, FLAG_SELLER_DELIVERED)

\* C35: status and flags stay consistent.  After every step the stored
\* record has: status Delivered only with the seller-delivered flag; status
\* Disputed only with exactly one of the two dispute flags; never both
\* dispute flags; the buyer-accepted flag only with status Released and the
\* seller-delivered flag.  A step that sets the seller-delivered flag is a
\* successful MarkDelivered, and a step that sets a dispute flag is a
\* successful Dispute on a record with neither dispute flag.
C35_StatusFlagsConsistent ==
  [][/\ Created' => FlagsConsistent(escrow')
     /\ (/\ HasFlag(escrow'.flags, FLAG_SELLER_DELIVERED)
         /\ ~HasFlag(escrow.flags, FLAG_SELLER_DELIVERED))
        => last'.op = "MarkDelivered" /\ last'.result = Ok
     /\ (\E bit \in {FLAG_BUYER_DISPUTED, FLAG_SELLER_DISPUTED} :
           HasFlag(escrow'.flags, bit) /\ ~HasFlag(escrow.flags, bit))
        => /\ last'.op = "Dispute" /\ last'.result = Ok
           /\ ~HasFlag(escrow.flags, FLAG_BUYER_DISPUTED)
           /\ ~HasFlag(escrow.flags, FLAG_SELLER_DISPUTED)
    ]_vars

\* a Dispute by the seller has been refused on a record the buyer disputed
\* after delivery
C35_Witness ==
  /\ Created
  /\ escrow.status = STATUS_DISPUTED
  /\ HasFlag(escrow.flags, FLAG_SELLER_DELIVERED)
  /\ HasFlag(escrow.flags, FLAG_BUYER_DISPUTED)
  /\ ~HasFlag(escrow.flags, FLAG_SELLER_DISPUTED)
  /\ last.op = "Dispute"
  /\ last.signed
  /\ last.actor = escrow.seller
  /\ last.actor # escrow.buyer
  /\ last.result = InvalidAccountData

\* ------------------------------------------------------------------------
\* The two-party engine (instructions.rs): CreateEscrow, Release, Refund
\* ------------------------------------------------------------------------
V1_ESCROW_DISC == "PACTESCR"
V1_ESCROW_SIZE == 81

V1_STATUS_ACTIVE == 0
V1_STATUS_RELEASED == 1
V1_STATUS_REFUNDED == 2

V1_CREATE_DATA_LEN == 16

InvalidAccountOwner == "InvalidAccountOwner"

\* AccountInfo::owner of the escrow account: the system program until the
\* CreateAccount instruction assigns it to crate::ID
SystemOwned == "SystemProgram"
ProgramOwned == "crate::ID"

\* the same seeds as the richer engine, under this program's own ID
derive_escrow_v1(buyer, seller, seed) == <<"escrow", buyer, seller, seed>>

NoRecordV1 ==
  [len |-> 0, key |-> <<>>, owner |-> SystemOwned, disc |-> "",
   buyer |-> ZERO_KEY, seller |-> ZERO_KEY, amount |-> 0, status |-> 0]

\* CreateEscrow::try_from and CreateEscrow::process
CreateEscrowResult(e, tx, lam) ==
  IF tx.n < 4 THEN NotEnoughAccountKeys
  ELSE IF tx.data.len < V1_CREATE_DATA_LEN THEN InvalidInstructionData
  ELSE IF ~tx.signed THEN MissingRequiredSignature
  ELSE IF tx.data.amount = 0 THEN InvalidInstructionData
  ELSE IF tx.escrow_key # derive_escrow_v1(tx.actor, tx.seller, tx.data.seed)
    THEN InvalidSeeds
  ELSE IF e.len # 0 \/ lam[tx.actor] < minimum_balance(V1_ESCROW_SIZE)
    THEN CpiError
  ELSE IF lam[tx.actor] - minimum_balance(V1_ESCROW_SIZE) < tx.data.amount
    THEN CpiError
  ELSE Ok

CreateEscrowApply(tx) ==
  [len |-> V1_ESCROW_SIZE, key |-> tx.escrow_key, owner |-> ProgramOwned,
   disc |-> V1_ESCROW_DISC, buyer |-> tx.actor, seller |-> tx.seller,
   amount |-> tx.data.amount, status |-> V1_STATUS_ACTIVE]

\* Release::try_from and Release::process; accounts[0] (`actor`) is the buyer
ReleaseResult(e, tx, el, lam) ==
  IF tx.n < 3 THEN NotEnoughAccountKeys
  ELSE IF ~tx.signed THEN MissingRequiredSignature
  ELSE IF e.owner # ProgramOwned THEN InvalidAccountOwner
  ELSE IF ~read_ok(e, 0, 8) THEN Panicked
  ELSE IF e.disc # V1_ESCROW_DISC THEN InvalidAccountData
  ELSE IF tx.actor # e.buyer THEN InvalidAccountData
  ELSE IF tx.seller # e.seller THEN InvalidAccountData
  ELSE IF e.status # V1_STATUS_ACTIVE THEN InvalidAccountData
  ELSE TransferResult(e.amount, lam[tx.seller], el)

ReleaseApply(e) == [e EXCEPT !.status = V1_STATUS_RELEASED]

\* Refund::try_from and Refund::process; the signature read is the one of
\* accounts[1], the seller (`actor` is that account's key)
RefundResult(e, tx, el, lam) ==
  IF tx.n < 3 THEN NotEnoughAccountKeys
  ELSE IF ~tx.signed THEN MissingRequiredSignature
  ELSE IF e.owner # ProgramOwned THEN InvalidAccountOwner
  ELSE IF ~read_ok(e, 0, 8) THEN Panicked
  ELSE IF e.disc # V1_ESCROW_DISC THEN InvalidAccountData
  ELSE IF tx.buyer # e.buyer THEN InvalidAccountData
  ELSE IF tx.actor # e.seller THEN InvalidAccountData
  ELSE IF e.status # V1_STATUS_ACTIVE THEN InvalidAccountData
  ELSE TransferResult(e.amount, lam[tx.buyer], el)

RefundApply(e) == [e EXCEPT !.status = V1_STATUS_REFUNDED]

\* ------------------------------------------------------------------------
\* The two engines side by side.  Each engine has its own ledger: `escrow`,
\* `escrow_lamports`, `lamports` and `paid` hold one value per engine, and
\* `last` holds the invocation given to both and the result of each.
\* ------------------------------------------------------------------------
Engines == {"v1", "v2"}

World(engine) ==
  [escrow |-> escrow[engine], escrow_lamports |-> escrow_lamports[engine],
   lamports |-> lamports[engine], paid |-> paid[engine]]

\* the ledger after an instruction that returned `r` with buffers `d`
Kept(r, d, w) ==
  IF r = Ok
    THEN [escrow |-> d.escrow,
          escrow_lamports |-> w.escrow_lamports - d.credit,
          lamports |-> [w.lamports EXCEPT ![d.to] = @ + d.credit],
          paid |-> [w.paid EXCEPT ![d.to] = @ + d.credit]]
    ELSE w

\* the ledger after a Create that returned `r`
Funded(r, record, payer, deposit, w) ==
  IF r = Ok
    THEN [escrow |-> record,
          escrow_lamports |-> w.escrow_lamports + deposit,
          lamports |-> [w.lamports EXCEPT ![payer] = @ - deposit],
          paid |-> w.paid]
    ELSE w

Both(w1, w2) ==
  /\ escrow' = [v1 |-> w1.escrow, v2 |-> w2.escrow]
  /\ escrow_lamports' = [v1 |-> w1.escrow_lamports, v2 |-> w2.escrow_lamports]
  /\ lamports' = [v1 |-> w1.lamports, v2 |-> w2.lamports]
  /\ paid' = [v1 |-> w1.paid, v2 |-> w2.paid]

Invoked(op, tx, r1, r2) == [op |-> op, tx |-> tx, v1 |-> r1, v2 |-> r2]

\* the CreateEscrow invocation that corresponds to a CreateEscrowV2 one:
\* the same buyer, seller, amount and seed, without the arbitrator account
\* and without the 40 bytes of timeout and terms hash
CreateV1Of(tx) ==
  [n |-> tx.n - 1, actor |-> tx.actor, signed |-> tx.signed,
   seller |-> tx.seller, escrow_key |-> tx.escrow_key,
   data |-> [len |-> tx.data.len - (CREATE_DATA_LEN - V1_CREATE_DATA_LEN),
             amount |-> tx.data.amount, seed |-> tx.data.seed]]

InitTwoEngines ==
  /\ escrow = [v1 |-> NoRecordV1, v2 |-> NoRecord]
  /\ escrow_lamports = [g \in Engines |-> 0]
  /\ lamports = [g \in Engines |-> [k \in Keys |-> InitialLamports]]
  /\ now \in 0..MaxStart
  /\ last = Invoked("none", <<>>, Ok, Ok)
  /\ paid = [g \in Engines |-> [k \in Keys |-> 0]]

BothCreate ==
  \E tx \in CreateEscrowV2Calls(escrow.v2) :
    LET tx1 == CreateV1Of(tx)
        r1 == CreateEscrowResult(escrow.v1, tx1, lamports.v1)
        r2 == CreateEscrowV2Result(escrow.v2, tx, lamports.v2)
    IN
    /\ last' = Invoked("Create", tx, r1, r2)
    /\ Both(Funded(r1, CreateEscrowApply(tx1), tx.actor,
                   minimum_balance(V1_ESCROW_SIZE) + tx.data.amount,
                   World("v1")),
            Funded(r2, CreateEscrowV2Apply(tx, now), tx.actor,
                   minimum_balance(ESCROW_SIZE) + tx.data.amount,
                   World("v2")))
    /\ UNCHANGED now

\* Release with accounts [buyer, seller, escrow] in both engines
BothRelease ==
  \E k \in Keys, signed \in BOOLEAN, s \in SlotKeys(escrow.v2.seller) :
    /\ signed => k \in SigningKeys
    /\ LET tx == Tx(3, k, signed, k, s, <<>>)
           r1 == ReleaseResult(escrow.v1, tx, escrow_lamports.v1, lamports.v1)
           r2 == ReleaseV2Result(escrow.v2, tx, escrow_lamports.v2,
                                 lamports.v2)
       IN
       /\ last' = Invoked("Release", tx, r1, r2)
       /\ Both(Kept(r1, AtReturn(r1, escrow.v1, ReleaseApply(escrow.v1),
                                 tx.seller, escrow.v1.amount), World("v1")),
               Kept(r2, AtReturn(r2, escrow.v2, ReleaseV2Apply(escrow.v2),
                                 tx.seller, escrow.v2.amount), World("v2")))
       /\ UNCHANGED now

\* Refund with accounts [buyer, seller, escrow] in the two-party engine and
\* [authority, buyer, seller, escrow] in the richer one, the seller account
\* being the authority
BothRefund ==
  \E k \in Keys, signed \in BOOLEAN, b \in SlotKeys(escrow.v2.buyer),
     overflow_checks \in BOOLEAN :
    /\ signed => k \in SigningKeys
    /\ LET tx == Tx(4, k, signed, b, k, <<>>)
           tx1 == [tx EXCEPT !.n = 3]
           r1 == RefundResult(escrow.v1, tx1, escrow_lamports.v1, lamports.v1)
           r2 == RefundV2Result(escrow.v2, tx, escrow_lamports.v2,
                                lamports.v2, now, overflow_checks)
       IN
       /\ last' = Invoked("Refund", tx, r1, r2)
       /\ Both(Kept(r1, AtReturn(r1, escrow.v1, RefundApply(escrow.v1),
                                 tx.buyer, escrow.v1.amount), World("v1")),
               Kept(r2, AtReturn(r2, escrow.v2, RefundV2Apply(escrow.v2),
                                 tx.buyer, escrow.v2.amount), World("v2")))
       /\ UNCHANGED now

ClockAdvances ==
  /\ escrow.v2.len # 0
  /\ \E t \in Times : t > now /\ now' = t
  /\ UNCHANGED <<escrow, escrow_lamports, lamports, last, paid>>

NextTwoEngines ==
  \/ BothCreate
  \/ BothRelease
  \/ BothRefund
  \/ ClockAdvances

SpecTwoEngines == InitTwoEngines /\ [][NextTwoEngines]_vars

\* ------------------------------------------------------------------------
\* C36
\* ------------------------------------------------------------------------
\* the two-party status that corresponds to a status of the richer engine
CorrespondingStatus(status) ==
  CASE status = STATUS_ACTIVE -> V1_STATUS_ACTIVE
    [] status = STATUS_RELEASED -> V1_STATUS_RELEASED
    [] status = STATUS_REFUNDED -> V1_STATUS_REFUNDED
    [] OTHER -> -1

Simulates ==
  /\ (last.v1 = Ok) = (last.v2 = Ok)
  /\ (escrow.v1.len # 0) = (escrow.v2.len # 0)
  /\ escrow.v2.len # 0 =>
       /\ escrow.v1.status = CorrespondingStatus(escrow.v2.status)
       /\ escrow.v1.buyer = escrow.v2.buyer
       /\ escrow.v1.seller = escrow.v2.seller
       /\ escrow.v1.amount = escrow.v2.amount
  /\ paid.v1 = paid.v2
  /\ lamports.v1 = lamports.v2
  /\ escrow_lamports.v1 = escrow_lamports.v2

\* C36 as stated: for every sequence of Create, Release signed by the buyer
\* and Refund signed by the seller given to both engines, the two engines
\* accept and reject the same invocations, end in corresponding statuses
\* and move the same amounts between custody, buyer and seller.
C36_AsStated == Simulates

\* the engines agree on every record whose deadline fits in a u64
C36_AgreeWithoutOverflow ==
  ~(escrow.v2.timeout_seconds > 0 /\ deadline_overflows(escrow.v2))
    => Simulates

====
